---------------------------- MODULE Spec2Model ----------------------------
(***************************************************************************)
(* Veles Core: multi-algorithm mining coordination.                        *)
(*                                                                         *)
(*   - getblocktemplate (src/rpc/mining.cpp): the chain-state lock         *)
(*     cs_main, the long-poll wait on the best-block condition variable    *)
(*     and the single-slot template cache kept in function statics;        *)
(*   - CBlockHeader::GetPoWHash (src/primitives/block.cpp): the            *)
(*     per-algorithm proof-of-work hash dispatch.                          *)
(*                                                                         *)
(*   - generateBlocks and generatetoaddress (src/rpc/mining.cpp): the      *)
(*     nonce scan, the try budget and the coinbase-script reservation.     *)
(*                                                                         *)
(*   - submitblock and submitheader (src/rpc/mining.cpp): the lookup in    *)
(*     the block index, the registration of the state catcher around       *)
(*     ProcessNewBlock and the result of the call.                         *)
(*                                                                         *)
(*   - getblocktemplate (src/rpc/mining.cpp), the request: proposal mode,  *)
(*     the segwit rule and the loop over the versionbits deployments.      *)
(*                                                                         *)
(*   - GetNetworkHashPS, GetLastAlgoBlock, getnetworkhashps,               *)
(*     getmininginfo and getmultialgoinfo (src/rpc/mining.cpp) over the    *)
(*     active chain and its per-algorithm work.                            *)
(*                                                                         *)
(*   - CBlockHeader::GetAlgoEfficiency and GetAlgoCostFactor               *)
(*     (src/primitives/block.cpp).                                         *)
(*                                                                         *)
(*   - gethalvinginfo (src/rpc/mining.cpp) over the halving schedule.      *)
(*                                                                         *)
(*   - the cs_main scopes of the calls of src/rpc/mining.cpp against a     *)
(*     validation thread that moves the tip.                               *)
(*                                                                         *)
(*   - getblocktemplate (src/rpc/mining.cpp): the time and the nonce of    *)
(*     the template that is handed out.                                    *)
(*                                                                         *)
(* Specifications:                                                         *)
(*   Spec     two concurrent getblocktemplate callers, the cache and the   *)
(*            lock; the steady clock is not tracked (SteadyAdvance).       *)
(*   SpecLP   one long-polling caller with the steady clock in seconds     *)
(*            (SteadyTick), with the fairness of a running thread and a    *)
(*            running clock.                                               *)
(*   SpecPoW  GetPoWHash applied to every header of a bounded set.         *)
(*   SpecGen  calls of generateBlocks, one at a time.                      *)
(*   SpecGenFair  SpecGen with the fairness of the calling thread.         *)
(*   SpecSubmit  two concurrent callers of submitblock and submitheader.   *)
(*   SpecRequest  calls of getblocktemplate, one at a time, from the       *)
(*            request to the version bits of the answer; the test of the   *)
(*            cache and the long poll are those of Spec and SpecLP and     *)
(*            are inputs here.                                             *)
(*   SpecChain  blocks connected to the active chain and calls of          *)
(*            getnetworkhashps, getmininginfo and getmultialgoinfo, one    *)
(*            at a time.                                                   *)
(*   SpecAlgo  GetAlgoEfficiency and GetAlgoCostFactor applied to every    *)
(*            header of a bounded set.                                     *)
(*   SpecHalving  blocks accepted from the start of the ALPHA epoch on,    *)
(*            the epoch boundaries, and calls of gethalvinginfo.           *)
(*   SpecLock  reads of the tip by the calls, with and without cs_main,    *)
(*            while the validation thread writes it.                       *)
(*   SpecTmpl  calls of getblocktemplate that hand out a new or the cached *)
(*            template while the clock and the tip move.                   *)
(***************************************************************************)
EXTENDS Integers, FiniteSets, Sequences, TLC

(***************************************************************************)
(* Bounds of the model.                                                    *)
(***************************************************************************)
\* Blocks are numbered 1..MaxTip; a block's hash is its number, 0 is a hash
\* of no block (and the null CBlockIndex pointer).
MaxTip == 2
\* mempool.GetTransactionsUpdated() ranges over 0..MaxRev.
MaxRev == 1
\* GetTime() - nStart saturates at SinceStartCap seconds (above TemplateMaxAge
\* every age is treated alike by the code).
SinceStartCap == 6
\* SteadyTick advances the steady clock by TickSeconds.
TickSeconds == 1
\* A waiting thread is rescheduled at most MaxLate seconds after its
\* wait_until deadline.
MaxLate == 2
\* The history variables lpElapsed and lpChecks are exact below these caps.
ElapsedCap == 85
ChecksCap == 3

(***************************************************************************)
(* Program constants.                                                      *)
(***************************************************************************)
\* mining.cpp:914  GetTime() - nStart > 5
TemplateMaxAge == 5
\* mining.cpp:875  checktxtime = now + std::chrono::minutes(1)
CheckTxFirst == 60
\* mining.cpp:885  checktxtime += std::chrono::seconds(10)
CheckTxNext == 10

\* The callers (RPC worker threads) of getblocktemplate.
Callers == {"c1", "c2"}
\* The caller of SpecLP.
LPCaller == "c1"

\* Algorithm identifiers (block.cpp:43-48) and the sentinel of GetAlgoId.
ALGO_SHA256D == "SHA256D"
ALGO_SCRYPT == "SCRYPT"
ALGO_NIST5 == "NIST5"
ALGO_LYRA2Z == "LYRA2Z"
ALGO_X11 == "X11"
ALGO_X16R == "X16R"
ALGO_NULL == "NULL"
Algos == {ALGO_SHA256D, ALGO_SCRYPT, ALGO_NIST5, ALGO_LYRA2Z, ALGO_X11, ALGO_X16R}
\* The algorithms getblocktemplate is asked for in the model.
GbtAlgos == {ALGO_SCRYPT, ALGO_X16R}

Min(a, b) == IF a <= b THEN a ELSE b

VARIABLES
    \* ---- node state read by getblocktemplate
    chainTip,                  \* chainActive.Tip(), guarded by cs_main
    g_best_block,              \* hash of the best block, under g_best_block_mutex
    nTransactionsUpdated,      \* mempool.GetTransactionsUpdated()
    fRPCRunning,               \* IsRPCRunning()
    cs_main,                   \* lock count of cs_main per caller
    \* ---- function statics of getblocktemplate (the template cache)
    pindexPrev,                \* tip the cached template was built on, 0 = nullptr
    sinceStart,                \* GetTime() - nStart, saturating at SinceStartCap
    pblocktemplate,            \* the cached template
    nTemplatePowAlgo,          \* algorithm of the cached template
    nTransactionsUpdatedLast,  \* mempool revision recorded at creation
    \* ---- locals of each getblocktemplate call
    pc,                        \* position of the call
    nPowAlgo,                  \* requested algorithm
    hashWatchedChain,          \* long poll: watched best-block hash
    nTransactionsUpdatedLastLP,\* long poll: watched mempool revision
    checktxtime,               \* long poll: checktxtime - steady_clock::now()
    result,                    \* what the call returns or throws
    \* ---- history variables
    cacheHit,                  \* the call's cache test: outcome and what it read
    lpElapsed,                 \* seconds since the call set checktxtime first
    lpChecks,                  \* mempool comparisons of the current wait
    lpReason,                  \* why the call left the wait loop
    \* ---- GetPoWHash
    powHeader,                 \* the CBlockHeader GetPoWHash is called on
    powHash,                   \* powHash, the value GetPoWHash returns
    powDone,                   \* GetPoWHash has returned
    \* ---- generateBlocks
    genPc,                     \* position of the call
    nHeight,                   \* nHeight, counted from the height at entry
    nHeightEnd,                \* nHeightEnd, counted from the height at entry
    nMaxTries,                 \* the try budget
    nNonce,                    \* pblock->nNonce of the current template
    blockHashes,               \* number of hashes pushed to blockHashes
    keepScript,                \* the keepScript argument
    scriptKept,                \* coinbaseScript->KeepScript() has been called
    fRequestShutdown,          \* ShutdownRequested()
    genResult,                 \* what the call returns or throws
    \* ---- history variables of generateBlocks
    genCaller,                 \* who called generateBlocks
    genBudget,                 \* nMaxTries at entry
    genTried,                  \* evaluations of CheckProofOfWork
    genFailed,                 \* evaluations that did not meet the target
    genPowOk,                  \* the scan ended on a nonce that met the target
    genTemplates,              \* templates assembled
    genSubmitted,              \* calls of ProcessNewBlock
    genAccepted,               \* calls of ProcessNewBlock that returned true
    \* ---- submitblock and submitheader, per caller
    subPc,                     \* position of the call
    subCall,                   \* "submitblock" or "submitheader"
    subHash,                   \* block.GetHash() of the submitted bytes
    sc,                        \* the submitblock_StateCatcher: found, state
    subAccepted,               \* accepted, what ProcessNewBlock returned
    subNewBlock,               \* new_block, set by ProcessNewBlock
    subResult,                 \* what the call returns or throws
    \* ---- the node around them
    blockIndex,                \* validation status of each block's index entry
    validationInterfaces,      \* callers whose catcher is registered
    subDangling,               \* a destroyed catcher is still registered
    subCrashed,                \* a signal to a destroyed catcher ended the process
    \* ---- history variables of submitblock
    subNulls,                  \* blocks a submitblock call has returned null for
    subAfterNull,              \* the call began after a null return for its block
    subOnConnected,            \* ProcessNewBlock began on a connected block
    \* ---- the request of a getblocktemplate call
    reqPc,                     \* position of the call
    reqParams,                 \* request.params[0]
    strMode,                   \* strMode
    lpval,                     \* whether lpval is not null
    setClientRules,            \* setClientRules
    nMaxVersionPreVB,          \* nMaxVersionPreVB
    reqResult,                 \* what the call returns or throws
    \* ---- the node around it
    gbt_force,                 \* VersionBitsDeploymentInfo[pos].gbt_force
    rpcbackcompatible,         \* -rpcbackcompatible
    versionBitsState,          \* VersionBitsState(pindexPrev, ..., pos, ...)
    templateOnTip,             \* the cached template is built on the tip
    nVersionBits,              \* deployment bits set in the cached pblock->nVersion
    \* ---- history variables of the call
    reqUpdated,                \* the call has replaced the cached template
    reqLongPolled,             \* the call has waited in the long poll
    reqProposal,               \* what a proposal found: index status, tip test, state
    \* ---- the active chain and the informational calls that read it
    chainActive,               \* chainActive: the entry of every height
    infoCall,                  \* the last informational call and what it returned
    \* ---- a block header and the per-algorithm constants read from it
    algoVersion,               \* nVersion of the header
    algoBlockHeight,           \* nBlockHeight given to GetAlgoEfficiency
    algoResult,                \* the function applied last and what it returned
    \* ---- the halving schedule and gethalvinginfo
    halvingParams,             \* *GetSubsidyHalvingParameters()
    nBestHeight,               \* chainActive.Height()
    nMoneySupply,              \* coins released by the blocks of the chain
    halvingInfo,               \* what the last gethalvinginfo returned
    \* ---- the calls that read the chain, and cs_main around their reads
    rpcTip,                    \* chainActive.Height() as the calls read it
    rpcTipWriting,             \* the validation thread is changing the tip
    rpcCsMain,                 \* the thread that holds cs_main, or "none"
    rpcCall,                   \* the call of the RPC thread: operation,
                               \* position and what it has read
    \* ---- the header of the cached template of getblocktemplate
    tmplBlock,                 \* pblocktemplate->block: nTime and nNonce
    tmplOnTip,                 \* pindexPrev == chainActive.Tip()
    nMedianTimePast,           \* chainActive.Tip()->GetMedianTimePast()
    nAdjustedTime,             \* GetAdjustedTime()
    tmplResult                 \* what the last call returned

nodeVars == <<chainTip, g_best_block, nTransactionsUpdated, fRPCRunning, cs_main>>
cacheVars == <<pindexPrev, sinceStart, pblocktemplate, nTemplatePowAlgo,
               nTransactionsUpdatedLast>>
callVars == <<pc, nPowAlgo, hashWatchedChain, nTransactionsUpdatedLastLP,
              checktxtime, result>>
histVars == <<cacheHit, lpElapsed, lpChecks, lpReason>>
lpVars == <<hashWatchedChain, nTransactionsUpdatedLastLP, checktxtime,
            lpElapsed, lpChecks, lpReason>>
gbtVars == <<nodeVars, cacheVars, callVars, histVars>>
powVars == <<powHeader, powHash, powDone>>
genVars == <<genPc, nHeight, nHeightEnd, nMaxTries, nNonce, blockHashes,
             keepScript, scriptKept, fRequestShutdown, genResult>>
genHistVars == <<genCaller, genBudget, genTried, genFailed, genPowOk,
                 genTemplates, genSubmitted, genAccepted>>
subVars == <<subPc, subCall, subHash, sc, subAccepted, subNewBlock, subResult,
             blockIndex, validationInterfaces, subDangling, subCrashed>>
subHistVars == <<subNulls, subAfterNull, subOnConnected>>
reqVars == <<reqPc, reqParams, strMode, lpval, setClientRules, nMaxVersionPreVB,
             reqResult, gbt_force, rpcbackcompatible, versionBitsState,
             templateOnTip, nVersionBits>>
reqHistVars == <<reqUpdated, reqLongPolled, reqProposal>>
chainVars == <<chainActive, infoCall>>
algoVars == <<algoVersion, algoBlockHeight, algoResult>>
halvingVars == <<halvingParams, nBestHeight, nMoneySupply, halvingInfo>>
lockVars == <<rpcTip, rpcTipWriting, rpcCsMain, rpcCall>>
tmplVars == <<tmplBlock, tmplOnTip, nMedianTimePast, nAdjustedTime, tmplResult>>
\* What getblocktemplate's cache and long poll and the node around them
\* leave alone.
notGbtVars == <<powVars, genVars, genHistVars, subVars, subHistVars, reqVars,
                reqHistVars, chainVars, algoVars, halvingVars, lockVars, tmplVars>>
\* What GetPoWHash leaves alone.
notPowVars == <<gbtVars, genVars, genHistVars, subVars, subHistVars, reqVars,
                reqHistVars, chainVars, algoVars, halvingVars, lockVars, tmplVars>>
\* What generateBlocks leaves alone.
notGenVars == <<gbtVars, powVars, subVars, subHistVars, reqVars, reqHistVars,
                chainVars, algoVars, halvingVars, lockVars, tmplVars>>
\* What submitblock and submitheader leave alone.
notSubVars == <<gbtVars, powVars, genVars, genHistVars, reqVars, reqHistVars,
                chainVars, algoVars, halvingVars, lockVars, tmplVars>>
\* What the request handling of getblocktemplate leaves alone.
notReqVars == <<gbtVars, powVars, genVars, genHistVars, subVars, subHistVars,
                chainVars, algoVars, halvingVars, lockVars, tmplVars>>
\* What the calls that read the active chain leave alone.
notChainVars == <<gbtVars, powVars, genVars, genHistVars, subVars, subHistVars,
                  reqVars, reqHistVars, algoVars, halvingVars, lockVars, tmplVars>>
\* What GetAlgoEfficiency and GetAlgoCostFactor leave alone.
notAlgoVars == <<gbtVars, powVars, genVars, genHistVars, subVars, subHistVars,
                 reqVars, reqHistVars, chainVars, halvingVars, lockVars, tmplVars>>
\* What the halving schedule and gethalvinginfo leave alone.
notHalvingVars == <<gbtVars, powVars, genVars, genHistVars, subVars, subHistVars,
                    reqVars, reqHistVars, chainVars, algoVars, lockVars, tmplVars>>
\* What the reads of the chain under cs_main leave alone.
notLockVars == <<gbtVars, powVars, genVars, genHistVars, subVars, subHistVars,
                 reqVars, reqHistVars, chainVars, algoVars, halvingVars, tmplVars>>
\* What the refresh of the cached template's header leaves alone.
notTmplVars == <<gbtVars, powVars, genVars, genHistVars, subVars, subHistVars,
                 reqVars, reqHistVars, chainVars, algoVars, halvingVars, lockVars>>

(***************************************************************************)
(* Values.                                                                 *)
(***************************************************************************)
\* std::unique_ptr<CBlockTemplate>(): no template.
NullTemplate == [isNull |-> TRUE, hashPrevBlock |-> 0, nPowAlgo |-> ALGO_NULL]

\* BlockAssembler(Params()).CreateNewBlock(scriptDummy, nPowAlgo): a block on
\* top of the current tip for the given algorithm.
CreateNewBlock(tip, algo) ==
    [isNull |-> FALSE, hashPrevBlock |-> tip, nPowAlgo |-> algo]

NoResult ==
    [kind |-> "none", code |-> "", message |-> "", previousblockhash |-> 0,
     longpollTip |-> 0, longpollRev |-> 0]

\* throw JSONRPCError(code, message)
JSONRPCError(code, message) ==
    [kind |-> "error", code |-> code, message |-> message,
     previousblockhash |-> 0, longpollTip |-> 0, longpollRev |-> 0]

\* The template object: previousblockhash (1054) and longpollid (1058).
TemplateResult(tpl, tip, rev) ==
    [kind |-> "template", code |-> "", message |-> "",
     previousblockhash |-> tpl.hashPrevBlock,
     longpollTip |-> tip, longpollRev |-> rev]

\* Dereferencing a null pblocktemplate, or assert(pindexPrev) failing.
Crash(what) ==
    [kind |-> what, code |-> "", message |-> "", previousblockhash |-> 0,
     longpollTip |-> 0, longpollRev |-> 0]

(***************************************************************************)
(* cs_main.                                                                *)
(***************************************************************************)
\* No caller holds cs_main.
CsFree == \A u \in Callers : cs_main[u] = 0

\* Variant: the lock is taken without waiting for its holder.
ENTER_CRITICAL_SECTION_NoWait(t) ==
    cs_main' = [cs_main EXCEPT ![t] = @ + 1]

\* LOCK(cs_main) on entry (748) and ENTER_CRITICAL_SECTION(cs_main) (889).
ENTER_CRITICAL_SECTION(t) ==
    /\ CsFree
    /\ cs_main' = [cs_main EXCEPT ![t] = @ + 1]

\* Variant: the lock is kept where the code releases it.
LEAVE_CRITICAL_SECTION_Kept(t) ==
    UNCHANGED cs_main

\* LEAVE_CRITICAL_SECTION(cs_main) (873), and the scope exit of LOCK(cs_main).
LEAVE_CRITICAL_SECTION(t) ==
    cs_main' = [cs_main EXCEPT ![t] = @ - 1]

(***************************************************************************)
(* getblocktemplate, template mode.                                        *)
(***************************************************************************)
LPKinds == {"null", "str", "badstr", "nonstr"}

\* Lines 748-870: take cs_main, read the request, fail the checks that come
\* before the long poll, read the longpollid.
\*   nodes  g_connman->GetNodeCount(CONNECTIONS_ALL)
\*   ibd    IsInitialBlockDownload()
\*   algo   GetAlgoId(request.params[1]), or miningAlgo
\*   lp     the shape of longpollid; h, r its hash and its counter
\* nPowAlgo is a constant of the call that is next read at line 913: on the
\* long-poll path the model draws its value there (LPReacquire).
GbtEnter(t, nodes, ibd, algo, lp, h, r) ==
    /\ pc[t] = "idle"
    /\ ENTER_CRITICAL_SECTION(t)
    /\ IF nodes = 0
         THEN /\ result' = [result EXCEPT ![t] = JSONRPCError("RPC_CLIENT_NOT_CONNECTED", "Veles is not connected!")]
              /\ pc' = [pc EXCEPT ![t] = "return"]
              /\ UNCHANGED <<nPowAlgo, hashWatchedChain, nTransactionsUpdatedLastLP>>
       ELSE IF ibd
         THEN /\ result' = [result EXCEPT ![t] = JSONRPCError("RPC_CLIENT_IN_INITIAL_DOWNLOAD", "Veles is downloading blocks...")]
              /\ pc' = [pc EXCEPT ![t] = "return"]
              /\ UNCHANGED <<nPowAlgo, hashWatchedChain, nTransactionsUpdatedLastLP>>
       ELSE IF algo = ALGO_NULL
         THEN /\ result' = [result EXCEPT ![t] =
                     JSONRPCError("RPC_INVALID_PARAMETER", "Unknown algorithm")]
              /\ pc' = [pc EXCEPT ![t] = "return"]
              /\ UNCHANGED <<nPowAlgo, hashWatchedChain, nTransactionsUpdatedLastLP>>
       ELSE IF lp = "badstr"
         THEN /\ result' = [result EXCEPT ![t] =
                     JSONRPCError("RPC_INVALID_PARAMETER", "longpollid must be hexadecimal string")]
              /\ pc' = [pc EXCEPT ![t] = "return"]
              /\ UNCHANGED <<nPowAlgo, hashWatchedChain, nTransactionsUpdatedLastLP>>
       ELSE /\ UNCHANGED result
            /\ CASE lp = "null" ->
                      /\ pc' = [pc EXCEPT ![t] = "update"]
                      /\ nPowAlgo' = [nPowAlgo EXCEPT ![t] = algo]
                      /\ UNCHANGED <<hashWatchedChain, nTransactionsUpdatedLastLP>>
                 [] lp = "str" ->
                      /\ pc' = [pc EXCEPT ![t] = "lp_leave"]
                      /\ UNCHANGED nPowAlgo
                      /\ hashWatchedChain' = [hashWatchedChain EXCEPT ![t] = h]
                      /\ nTransactionsUpdatedLastLP' =
                             [nTransactionsUpdatedLastLP EXCEPT ![t] = r]
                 [] lp = "nonstr" ->
                      /\ pc' = [pc EXCEPT ![t] = "lp_leave"]
                      /\ UNCHANGED nPowAlgo
                      /\ hashWatchedChain' = [hashWatchedChain EXCEPT ![t] = chainTip]
                      /\ nTransactionsUpdatedLastLP' =
                             [nTransactionsUpdatedLastLP EXCEPT ![t] = nTransactionsUpdatedLast]
    /\ UNCHANGED <<chainTip, g_best_block, nTransactionsUpdated, fRPCRunning>>
    /\ UNCHANGED <<cacheVars, checktxtime, histVars>>
    /\ UNCHANGED notGbtVars

\* Variant: the loop condition does not test IsRPCRunning().
LPWaitCondition_NoShutdown(t) ==
    g_best_block = hashWatchedChain[t]

\* Line 878: while (g_best_block == hashWatchedChain && IsRPCRunning())
LPWaitCondition(t) ==
    g_best_block = hashWatchedChain[t] /\ fRPCRunning

\* Lines 878-887: what ended the loop. After a timeout the mempool
\* comparison (883) comes before the loop condition (878).
LPExitReason(t, timedOut) ==
    IF timedOut /\ nTransactionsUpdated # nTransactionsUpdatedLastLP[t]
      THEN "mempool"
      ELSE IF g_best_block # hashWatchedChain[t] THEN "tip" ELSE "shutdown"

\* The wait loop is left: its locals are not read again.
LPDone(t, timedOut) ==
    /\ pc' = [pc EXCEPT ![t] = "lp_exit"]
    /\ lpReason' = [lpReason EXCEPT ![t] = LPExitReason(t, timedOut)]
    /\ hashWatchedChain' = [hashWatchedChain EXCEPT ![t] = 0]
    /\ nTransactionsUpdatedLastLP' = [nTransactionsUpdatedLastLP EXCEPT ![t] = 0]
    /\ checktxtime' = [checktxtime EXCEPT ![t] = 0]

\* Lines 873-878: leave cs_main, set checktxtime a minute ahead, test the loop
\* condition for the first time.
LPLeave(t) ==
    /\ pc[t] = "lp_leave"
    /\ LEAVE_CRITICAL_SECTION(t)
    /\ lpElapsed' = [lpElapsed EXCEPT ![t] = 0]
    /\ lpChecks' = [lpChecks EXCEPT ![t] = 0]
    /\ IF LPWaitCondition(t)
         THEN /\ pc' = [pc EXCEPT ![t] = "lp_wait"]
              /\ checktxtime' = [checktxtime EXCEPT ![t] = CheckTxFirst]
              /\ UNCHANGED <<hashWatchedChain, nTransactionsUpdatedLastLP, lpReason>>
         ELSE LPDone(t, FALSE)
    /\ UNCHANGED <<chainTip, g_best_block, nTransactionsUpdated, fRPCRunning>>
    /\ UNCHANGED <<cacheVars, nPowAlgo, result, cacheHit>>
    /\ UNCHANGED notGbtVars

\* Variant: the comparison reads the cache's nTransactionsUpdatedLast.
LPMempoolChanged_CacheRev(t) ==
    nTransactionsUpdated # nTransactionsUpdatedLast

\* Line 883: the mempool comparison made after a timeout.
LPMempoolChanged(t) ==
    nTransactionsUpdated # nTransactionsUpdatedLastLP[t]

\* Variant: the next check is a minute after the last.
LPNextCheck_Minute(c) == c + CheckTxFirst

\* Line 885: checktxtime += std::chrono::seconds(10)
LPNextCheck(c) == c + CheckTxNext

\* Lines 880-886 then 878: wait_until returns cv_status::timeout; compare the
\* mempool revision, break or move checktxtime, test the loop condition.
LPWaitTimeout(t) ==
    /\ pc[t] = "lp_wait"
    /\ checktxtime[t] <= 0
    /\ lpChecks' = [lpChecks EXCEPT ![t] = Min(@ + 1, ChecksCap)]
    /\ IF LPMempoolChanged(t) \/ ~LPWaitCondition(t)
         THEN LPDone(t, TRUE)
         ELSE /\ checktxtime' = [checktxtime EXCEPT ![t] = LPNextCheck(@)]
              /\ UNCHANGED <<pc, hashWatchedChain, nTransactionsUpdatedLastLP, lpReason>>
    /\ UNCHANGED <<nodeVars, cacheVars, nPowAlgo, result, cacheHit, lpElapsed>>
    /\ UNCHANGED notGbtVars

\* Lines 880 then 878: wait_until returns cv_status::no_timeout (a
\* notification or a spurious wake-up): no mempool comparison, checktxtime
\* stays; test the loop condition.
LPWaitNotified(t) ==
    /\ pc[t] = "lp_wait"
    /\ IF LPWaitCondition(t)
         THEN UNCHANGED <<pc, hashWatchedChain, nTransactionsUpdatedLastLP,
                          checktxtime, lpReason>>
         ELSE LPDone(t, FALSE)
    /\ UNCHANGED <<nodeVars, cacheVars, nPowAlgo, result, cacheHit, lpElapsed, lpChecks>>
    /\ UNCHANGED notGbtVars

\* Lines 889-892: take cs_main again, fail when the RPC server is stopping.
\*   algo  nPowAlgo of the call (set at line 825, first read at line 915)
LPReacquire(t, algo) ==
    /\ pc[t] = "lp_exit"
    /\ ENTER_CRITICAL_SECTION(t)
    /\ IF ~fRPCRunning
         THEN /\ result' = [result EXCEPT ![t] = JSONRPCError("RPC_CLIENT_NOT_CONNECTED", "Shutting down")]
              /\ pc' = [pc EXCEPT ![t] = "return"]
              /\ UNCHANGED nPowAlgo
         ELSE /\ pc' = [pc EXCEPT ![t] = "update"]
              /\ nPowAlgo' = [nPowAlgo EXCEPT ![t] = algo]
              /\ UNCHANGED result
    /\ UNCHANGED <<chainTip, g_best_block, nTransactionsUpdated, fRPCRunning>>
    /\ UNCHANGED <<cacheVars, lpVars, cacheHit>>
    /\ UNCHANGED notGbtVars

\* Variant: the age test is >= 5.
CacheStale_AgeAtLeast(t) ==
    \/ pindexPrev # chainTip
    \/ (nTransactionsUpdated # nTransactionsUpdatedLast /\ sinceStart >= TemplateMaxAge)
    \/ nPowAlgo[t] # nTemplatePowAlgo

\* Variant: the tip is not compared.
CacheStale_NoTipTest(t) ==
    \/ (nTransactionsUpdated # nTransactionsUpdatedLast /\ sinceStart > TemplateMaxAge)
    \/ nPowAlgo[t] # nTemplatePowAlgo

\* Lines 913-915: the cached template cannot be used for this request.
CacheStale(t) ==
    \/ pindexPrev # chainTip
    \/ (nTransactionsUpdated # nTransactionsUpdatedLast /\ sinceStart > TemplateMaxAge)
    \/ nPowAlgo[t] # nTemplatePowAlgo

\* Variant: pindexPrev is not cleared before the rebuild.
CacheClear_KeepPrev(t) ==
    /\ nTransactionsUpdatedLast' = nTransactionsUpdated
    /\ sinceStart' = 0
    /\ nTemplatePowAlgo' = nPowAlgo[t]
    /\ UNCHANGED <<pindexPrev, pblocktemplate>>

\* Lines 917-924: clear pindexPrev, record the mempool revision, the time and
\* the algorithm of the template about to be built.
CacheClear(t) ==
    /\ pindexPrev' = 0
    /\ nTransactionsUpdatedLast' = nTransactionsUpdated
    /\ sinceStart' = 0
    /\ nTemplatePowAlgo' = nPowAlgo[t]
    /\ UNCHANGED pblocktemplate

\* No cache test made yet.
NoCacheTest == [outcome |-> "none", revChanged |-> FALSE, age |-> 0]

\* The cache test of caller t found the template usable: what it read at
\* line 914.
CacheTestHit(t) ==
    [outcome |-> "hit",
     revChanged |-> nTransactionsUpdated # nTransactionsUpdatedLast,
     age |-> sinceStart]

\* The cache test of caller t found the template stale.
CacheTestMiss(t) == [outcome |-> "miss", revChanged |-> FALSE, age |-> 0]

\* Lines 913-924: the cache test, and the first half of a rebuild.
GbtUpdate(t) ==
    /\ pc[t] = "update"
    /\ IF CacheStale(t)
         THEN /\ CacheClear(t)
              /\ cacheHit' = [cacheHit EXCEPT ![t] = CacheTestMiss(t)]
              /\ pc' = [pc EXCEPT ![t] = "create"]
         ELSE /\ UNCHANGED cacheVars
              /\ cacheHit' = [cacheHit EXCEPT ![t] = CacheTestHit(t)]
              /\ pc' = [pc EXCEPT ![t] = "respond"]
    /\ UNCHANGED <<nodeVars, nPowAlgo, lpVars, result>>
    /\ UNCHANGED notGbtVars

\* Lines 928-933: CreateNewBlock; on failure throw and leave pindexPrev
\* cleared, on success record the tip the template was built on.
\*   ok  whether CreateNewBlock returned a template
GbtCreate(t, ok) ==
    /\ pc[t] = "create"
    /\ IF ok
         THEN /\ pblocktemplate' = CreateNewBlock(chainTip, nPowAlgo[t])
              /\ pindexPrev' = chainTip
              /\ pc' = [pc EXCEPT ![t] = "respond"]
              /\ UNCHANGED result
         ELSE /\ pblocktemplate' = NullTemplate
              /\ UNCHANGED pindexPrev
              /\ result' = [result EXCEPT ![t] = JSONRPCError("RPC_OUT_OF_MEMORY", "Out of memory")]
              /\ pc' = [pc EXCEPT ![t] = "return"]
    /\ UNCHANGED <<nodeVars, sinceStart, nTemplatePowAlgo, nTransactionsUpdatedLast,
                   nPowAlgo, lpVars, cacheHit>>
    /\ UNCHANGED notGbtVars

\* Lines 935-1058: assert(pindexPrev), then the reply built from the cached
\* template.
GbtRespond(t) ==
    /\ pc[t] = "respond"
    /\ result' = [result EXCEPT ![t] =
                     IF pindexPrev = 0 THEN Crash("assert")
                     ELSE IF pblocktemplate.isNull THEN Crash("nullptr")
                     ELSE TemplateResult(pblocktemplate, chainTip,
                                         nTransactionsUpdatedLast)]
    /\ pc' = [pc EXCEPT ![t] = "return"]
    /\ UNCHANGED <<nodeVars, cacheVars, nPowAlgo, lpVars, cacheHit>>
    /\ UNCHANGED notGbtVars

\* The call ends (return or throw): the scope of LOCK(cs_main) (748) ends.
GbtExit(t) ==
    /\ pc[t] = "return"
    /\ LEAVE_CRITICAL_SECTION(t)
    /\ pc' = [pc EXCEPT ![t] = "idle"]
    /\ result' = [result EXCEPT ![t] = NoResult]
    /\ nPowAlgo' = [nPowAlgo EXCEPT ![t] = ALGO_NULL]
    /\ hashWatchedChain' = [hashWatchedChain EXCEPT ![t] = 0]
    /\ nTransactionsUpdatedLastLP' = [nTransactionsUpdatedLastLP EXCEPT ![t] = 0]
    /\ checktxtime' = [checktxtime EXCEPT ![t] = 0]
    /\ cacheHit' = [cacheHit EXCEPT ![t] = NoCacheTest]
    /\ lpElapsed' = [lpElapsed EXCEPT ![t] = 0]
    /\ lpChecks' = [lpChecks EXCEPT ![t] = 0]
    /\ lpReason' = [lpReason EXCEPT ![t] = "none"]
    /\ UNCHANGED <<chainTip, g_best_block, nTransactionsUpdated, fRPCRunning>>
    /\ UNCHANGED cacheVars
    /\ UNCHANGED notGbtVars

\* A getblocktemplate request arrives. A longpollid string names the hash of
\* a block of the chain so far, or of no block, and any counter value.
GbtCall(t) ==
    /\ pc[t] = "idle"
    /\ CsFree
    /\ \E nodes \in {0, 1}, ibd \in BOOLEAN,
          algo \in GbtAlgos \cup {ALGO_NULL}, lp \in LPKinds :
         \E h \in (IF lp = "str" THEN 0..chainTip ELSE {0}),
            r \in (IF lp = "str" THEN 0..MaxRev ELSE {0}) :
              GbtEnter(t, nodes, ibd, algo, lp, h, r)

(***************************************************************************)
(* The node around getblocktemplate.                                       *)
(***************************************************************************)
\* A new best block is connected: under cs_main the tip moves, g_best_block is
\* set and g_best_block_cv notified.
UpdateTip ==
    /\ CsFree
    /\ chainTip < MaxTip
    /\ chainTip' = chainTip + 1
    /\ g_best_block' = chainTip + 1
    /\ UNCHANGED <<nTransactionsUpdated, fRPCRunning, cs_main>>
    /\ UNCHANGED <<cacheVars, callVars, histVars>>
    /\ UNCHANGED notGbtVars

\* The mempool changes: its update counter grows.
MempoolUpdate ==
    /\ nTransactionsUpdated < MaxRev
    /\ nTransactionsUpdated' = nTransactionsUpdated + 1
    /\ UNCHANGED <<chainTip, g_best_block, fRPCRunning, cs_main>>
    /\ UNCHANGED <<cacheVars, callVars, histVars>>
    /\ UNCHANGED notGbtVars

\* Shutdown is requested: IsRPCRunning() turns false.
StopRPC ==
    /\ fRPCRunning
    /\ fRPCRunning' = FALSE
    /\ UNCHANGED <<chainTip, g_best_block, nTransactionsUpdated, cs_main>>
    /\ UNCHANGED <<cacheVars, callVars, histVars>>
    /\ UNCHANGED notGbtVars

\* GetTime() advances. The cache test reads GetTime() - nStart only to
\* compare it with TemplateMaxAge: the clock is advanced to the ages
\* TemplateMaxAge and beyond.
WallTick ==
    /\ sinceStart < SinceStartCap
    /\ sinceStart' = Min(sinceStart + TemplateMaxAge, SinceStartCap)
    /\ UNCHANGED <<pindexPrev, pblocktemplate, nTemplatePowAlgo, nTransactionsUpdatedLast>>
    /\ UNCHANGED <<nodeVars, callVars, histVars>>
    /\ UNCHANGED notGbtVars

Waiting(t) == pc[t] = "lp_wait"

\* steady_clock::now() advances by TickSeconds; a waiting thread whose
\* deadline has passed runs before MaxLate more seconds pass.
SteadyTick ==
    /\ \A t \in Callers : Waiting(t) => checktxtime[t] - TickSeconds >= -MaxLate
    /\ \E t \in Callers : Waiting(t)
    /\ checktxtime' = [t \in Callers |->
                          IF Waiting(t) THEN checktxtime[t] - TickSeconds
                          ELSE checktxtime[t]]
    /\ lpElapsed' = [t \in Callers |->
                        IF Waiting(t) THEN Min(lpElapsed[t] + TickSeconds, ElapsedCap)
                        ELSE lpElapsed[t]]
    /\ UNCHANGED <<nodeVars, cacheVars, pc, nPowAlgo, hashWatchedChain,
                   nTransactionsUpdatedLastLP, result, cacheHit, lpChecks, lpReason>>
    /\ UNCHANGED notGbtVars

\* steady_clock::now() advances by an amount that is not tracked, far enough
\* for every pending wait_until deadline to be reached.
SteadyAdvance ==
    /\ \E t \in Callers : Waiting(t) /\ checktxtime[t] > 0
    /\ checktxtime' = [t \in Callers |->
                          IF Waiting(t) THEN Min(checktxtime[t], 0)
                          ELSE checktxtime[t]]
    /\ lpElapsed' = [t \in Callers |->
                        IF Waiting(t) THEN ElapsedCap ELSE lpElapsed[t]]
    /\ lpChecks' = [t \in Callers |->
                       IF Waiting(t) THEN ChecksCap ELSE lpChecks[t]]
    /\ UNCHANGED <<nodeVars, cacheVars, pc, nPowAlgo, hashWatchedChain,
                   nTransactionsUpdatedLastLP, result, cacheHit, lpReason>>
    /\ UNCHANGED notGbtVars

(***************************************************************************)
(* CBlockHeader::GetPoWHash (primitives/block.cpp).                        *)
(*                                                                         *)
(* nVersion is kept as the two values the code reads from it: top, the     *)
(* value of nVersion & VERSIONBITS_TOP_MASK, and algo, the value of        *)
(* nVersion & ALGO_VERSION_MASK. A hash function is kept as the name of    *)
(* the primitive with the bytes (and the seed) it is applied to.           *)
(***************************************************************************)
\* The value of nVersion & VERSIONBITS_TOP_MASK of a versionbits header.
VERSIONBITS_TOP_BITS == "VERSIONBITS_TOP_BITS"
\* The values of nVersion & VERSIONBITS_TOP_MASK in the model.
VersionTops == {VERSIONBITS_TOP_BITS, "top_000", "top_010", "top_111"}
\* The values of nVersion & ALGO_VERSION_MASK in the model: the six
\* identifiers and two values that are no identifier.
VersionAlgos == Algos \cup {"algo_other1", "algo_other2"}

\* Block hashes and nonces of the headers of the model.
MaxPowHash == 2
MaxPowNonce == 1

Headers ==
    [nVersion : [top : VersionTops, algo : VersionAlgos],
     hashPrevBlock : 1..MaxPowHash,
     nNonce : 0..MaxPowNonce]

\* The bytes from BEGIN(nVersion) to END(nNonce) of the serialized header.
HeaderBytes(h) == <<h.nVersion, h.hashPrevBlock, h.nNonce>>

\* uint256S("ffff...ffff")
PowHashInitial == [fn |-> "ffff", input |-> <<>>, seed |-> <<>>]

\* The hash primitives.
SerializeHash(h) == [fn |-> "SerializeHash", input |-> HeaderBytes(h), seed |-> <<>>]
scrypt_1024_1_1_256(h) == [fn |-> "scrypt_1024_1_1_256", input |-> HeaderBytes(h), seed |-> <<>>]
NIST5(h) == [fn |-> "NIST5", input |-> HeaderBytes(h), seed |-> <<>>]
lyra2z_hash(h) == [fn |-> "lyra2z_hash", input |-> HeaderBytes(h), seed |-> <<>>]
HashX11(h) == [fn |-> "HashX11", input |-> HeaderBytes(h), seed |-> <<>>]
HashX16R(h, hashPrev) == [fn |-> "HashX16R", input |-> HeaderBytes(h), seed |-> <<hashPrev>>]

\* Variant: the cases of LYRA2Z and X11 call each other's function.
PoWSwitch_Swapped(h) ==
    CASE h.nVersion.algo = ALGO_SHA256D -> SerializeHash(h)
      [] h.nVersion.algo = ALGO_SCRYPT  -> scrypt_1024_1_1_256(h)
      [] h.nVersion.algo = ALGO_NIST5   -> NIST5(h)
      [] h.nVersion.algo = ALGO_LYRA2Z  -> HashX11(h)
      [] h.nVersion.algo = ALGO_X11     -> lyra2z_hash(h)
      [] h.nVersion.algo = ALGO_X16R    -> HashX16R(h, h.hashPrevBlock)
      [] OTHER                          -> PowHashInitial

\* Lines 41-50: switch (nVersion & ALGO_VERSION_MASK)
PoWSwitch(h) ==
    CASE h.nVersion.algo = ALGO_SHA256D -> SerializeHash(h)
      [] h.nVersion.algo = ALGO_SCRYPT  -> scrypt_1024_1_1_256(h)
      [] h.nVersion.algo = ALGO_NIST5   -> NIST5(h)
      [] h.nVersion.algo = ALGO_LYRA2Z  -> lyra2z_hash(h)
      [] h.nVersion.algo = ALGO_X11     -> HashX11(h)
      [] h.nVersion.algo = ALGO_X16R    -> HashX16R(h, h.hashPrevBlock)
      [] OTHER                          -> PowHashInitial

\* Variant: no test of the version top bits.
GetPoWHash_NoFallback(h) == PoWSwitch(h)

\* Lines 30-56: CBlockHeader::GetPoWHash
GetPoWHash(h) ==
    IF h.nVersion.top # VERSIONBITS_TOP_BITS
      THEN scrypt_1024_1_1_256(h)
      ELSE PoWSwitch(h)

\* A caller (CheckProofOfWork's argument, line 207) evaluates GetPoWHash.
ComputePoW ==
    /\ ~powDone
    /\ powHash' = GetPoWHash(powHeader)
    /\ powDone' = TRUE
    /\ UNCHANGED powHeader
    /\ UNCHANGED notPowVars

PowInit ==
    /\ powHeader \in Headers
    /\ powHash = PowHashInitial
    /\ powDone = FALSE

\* GetPoWHash is not running.
PowIdle ==
    /\ powHeader = [nVersion |-> [top |-> VERSIONBITS_TOP_BITS, algo |-> ALGO_SCRYPT],
                    hashPrevBlock |-> 1, nNonce |-> 0]
    /\ powHash = PowHashInitial
    /\ powDone = FALSE

(***************************************************************************)
(* generateBlocks and generatetoaddress (rpc/mining.cpp).                  *)
(*                                                                         *)
(* nHeight and nHeightEnd are counted from chainActive.Height() at entry.  *)
(* CheckProofOfWork(pblock->GetPoWHash(), ...) is an input of each scan    *)
(* step. A run of nonces that all miss the target is one step.             *)
(***************************************************************************)
\* mining.cpp:184  static const int nInnerLoopCount = 0x10000
nInnerLoopCount == 65536

\* nGenerate ranges over 0..MaxGenerate.
MaxGenerate == 2
\* nMaxTries at entry is 0, nInnerLoopCount or 2 * nInnerLoopCount plus at
\* most MaxExtraTries.
MaxExtraTries == 2
\* Nonces below MaxNonceSteps are tried one step at a time; from there on
\* the nonces that miss the target are taken as one run up to the end of the
\* range or of the budget.
MaxNonceSteps == 2

GenBudgets ==
    {b + k : b \in {0, nInnerLoopCount, 2 * nInnerLoopCount}, k \in 0..MaxExtraTries}

GenNoResult == [kind |-> "none", code |-> "", message |-> "", count |-> 0]
\* return blockHashes
GenHashes(n) == [kind |-> "hashes", code |-> "", message |-> "", count |-> n]
\* throw JSONRPCError(code, message) out of generateBlocks or generatetoaddress
GenThrow(code, message) ==
    [kind |-> "error", code |-> code, message |-> message, count |-> 0]

\* Lines 182-193: entry of generateBlocks.
generateBlocks(nGenerate, nMaxTriesIn, keepScriptIn, caller) ==
    /\ genPc = "idle"
    /\ genPc' = "loop"
    /\ nHeight' = 0
    /\ nHeightEnd' = nGenerate
    /\ nMaxTries' = nMaxTriesIn
    /\ nNonce' = 0
    /\ blockHashes' = 0
    /\ keepScript' = keepScriptIn
    /\ scriptKept' = FALSE
    /\ genResult' = GenNoResult
    /\ genCaller' = caller
    /\ genBudget' = nMaxTriesIn
    /\ genTried' = 0
    /\ genFailed' = 0
    /\ genPowOk' = FALSE
    /\ genTemplates' = 0
    /\ genSubmitted' = 0
    /\ genAccepted' = 0
    /\ UNCHANGED fRequestShutdown
    /\ UNCHANGED notGenVars

\* Lines 253-269: generatetoaddress.
\*   validAddress  IsValidDestination(destination)
generatetoaddress(nGenerate, nMaxTriesIn, validAddress) ==
    IF validAddress
      THEN generateBlocks(nGenerate, nMaxTriesIn, FALSE, "generatetoaddress")
      ELSE /\ genPc = "idle"
           /\ genPc' = "done"
           /\ genResult' = GenThrow("RPC_INVALID_ADDRESS_OR_KEY", "Error: Invalid address")
           /\ genCaller' = "generatetoaddress"
           /\ nHeight' = 0
           /\ nHeightEnd' = 0
           /\ nMaxTries' = nMaxTriesIn
           /\ genBudget' = nMaxTriesIn
           /\ nNonce' = 0
           /\ blockHashes' = 0
           /\ keepScript' = FALSE
           /\ scriptKept' = FALSE
           /\ genTried' = 0
           /\ genFailed' = 0
           /\ genPowOk' = FALSE
           /\ genTemplates' = 0
           /\ genSubmitted' = 0
           /\ genAccepted' = 0
           /\ UNCHANGED fRequestShutdown
           /\ UNCHANGED notGenVars

\* Variant: the loop runs once more at the end height.
GenContinues_OneMore == nHeight <= nHeightEnd /\ ~fRequestShutdown

\* Line 195: while (nHeight < nHeightEnd && !ShutdownRequested())
GenContinues == nHeight < nHeightEnd /\ ~fRequestShutdown

\* Lines 195-205: the head of the outer loop, CreateNewBlock and
\* IncrementExtraNonce.
\*   created  whether CreateNewBlock returned a template
GenLoop(created) ==
    /\ genPc = "loop"
    /\ IF GenContinues
         THEN IF created
                THEN /\ genPc' = "scan"
                     /\ nNonce' = 0
                     /\ genTemplates' = genTemplates + 1
                     /\ UNCHANGED genResult
                ELSE /\ genPc' = "done"
                     /\ genResult' = GenThrow("RPC_INTERNAL_ERROR", "Couldn't create new block")
                     /\ UNCHANGED <<nNonce, genTemplates>>
         ELSE /\ genPc' = "done"
              /\ genResult' = GenHashes(blockHashes)
              /\ UNCHANGED <<nNonce, genTemplates>>
    /\ genPowOk' = FALSE
    /\ UNCHANGED <<nHeight, nHeightEnd, nMaxTries, blockHashes, keepScript,
                   scriptKept, fRequestShutdown>>
    /\ UNCHANGED <<genCaller, genBudget, genTried, genFailed, genSubmitted, genAccepted>>
    /\ UNCHANGED notGenVars

\* Line 207: the part of the scan condition that is not the hash check.
GenScanning == nMaxTries > 0 /\ nNonce < nInnerLoopCount

\* The lengths of the runs of missing nonces taken as one step.
GenRuns ==
    (IF nNonce < MaxNonceSteps THEN {1} ELSE {})
        \cup {Min(nMaxTries, nInnerLoopCount - nNonce)}

\* Variant: the budget is not decremented.
GenBudgetAfter_Kept(tries, k) == tries

\* Line 209: --nMaxTries, k times.
GenBudgetAfter(tries, k) == tries - k

\* Lines 207-210: k nonces in a row miss the target.
GenScanMiss(k) ==
    /\ genPc = "scan"
    /\ GenScanning
    /\ k >= 1
    /\ nNonce' = nNonce + k
    /\ nMaxTries' = GenBudgetAfter(nMaxTries, k)
    /\ genTried' = genTried + k
    /\ genFailed' = genFailed + k
    /\ UNCHANGED <<genPc, nHeight, nHeightEnd, blockHashes, keepScript, scriptKept,
                   fRequestShutdown, genResult>>
    /\ UNCHANGED <<genCaller, genBudget, genPowOk, genTemplates, genSubmitted,
                   genAccepted>>
    /\ UNCHANGED notGenVars

\* Line 207: the nonce meets the target, the scan ends.
GenScanHit ==
    /\ genPc = "scan"
    /\ GenScanning
    /\ genPc' = "scanned"
    /\ genTried' = genTried + 1
    /\ genPowOk' = TRUE
    /\ UNCHANGED <<nHeight, nHeightEnd, nMaxTries, nNonce, blockHashes, keepScript,
                   scriptKept, fRequestShutdown, genResult>>
    /\ UNCHANGED <<genCaller, genBudget, genFailed, genTemplates, genSubmitted,
                   genAccepted>>
    /\ UNCHANGED notGenVars

\* Line 207: the budget or the nonce range is used up, the scan ends without
\* a hash check.
GenScanEnd ==
    /\ genPc = "scan"
    /\ ~GenScanning
    /\ genPc' = "scanned"
    /\ genPowOk' = FALSE
    /\ UNCHANGED <<nHeight, nHeightEnd, nMaxTries, nNonce, blockHashes, keepScript,
                   scriptKept, fRequestShutdown, genResult>>
    /\ UNCHANGED <<genCaller, genBudget, genTried, genFailed, genTemplates,
                   genSubmitted, genAccepted>>
    /\ UNCHANGED notGenVars

\* Variant: the test of the exhausted nonce range is missing.
GenSubmits_NoRangeTest == nMaxTries # 0

\* Lines 211-216: neither break nor continue: the block goes to
\* ProcessNewBlock.
GenSubmits == nMaxTries # 0 /\ nNonce # nInnerLoopCount

\* Variant: KeepScript is called whatever keepScript is.
GenKeeps_Always == TRUE

\* Line 225: if (keepScript)
GenKeeps == keepScript

\* Variant: the height is not counted up.
GenNextHeight_Kept(h) == h

\* Line 221: ++nHeight
GenNextHeight(h) == h + 1

\* Lines 211-229: after the scan: break, continue, or ProcessNewBlock and what
\* follows it.
\*   accepted  what ProcessNewBlock returns
GenAfterScan(accepted) ==
    /\ genPc = "scanned"
    /\ IF ~GenSubmits
         THEN /\ IF nMaxTries = 0
                   THEN /\ genPc' = "done"
                        /\ genResult' = GenHashes(blockHashes)
                   ELSE /\ genPc' = "loop"
                        /\ UNCHANGED genResult
              /\ UNCHANGED <<nHeight, blockHashes, scriptKept, genSubmitted, genAccepted>>
         ELSE /\ genSubmitted' = genSubmitted + 1
              /\ IF accepted
                   THEN /\ nHeight' = GenNextHeight(nHeight)
                        /\ blockHashes' = blockHashes + 1
                        /\ scriptKept' = (scriptKept \/ GenKeeps)
                        /\ genAccepted' = genAccepted + 1
                        /\ genPc' = "loop"
                        /\ UNCHANGED genResult
                   ELSE /\ genPc' = "done"
                        /\ genResult' = GenThrow("RPC_INTERNAL_ERROR",
                                                 "ProcessNewBlock, block not accepted")
                        /\ UNCHANGED <<nHeight, blockHashes, scriptKept, genAccepted>>
    /\ UNCHANGED <<nHeightEnd, nMaxTries, nNonce, keepScript, fRequestShutdown>>
    /\ UNCHANGED <<genCaller, genBudget, genTried, genFailed, genPowOk, genTemplates>>
    /\ UNCHANGED notGenVars

\* The call has returned or thrown; the next call may come.
GenExit ==
    /\ genPc = "done"
    /\ genPc' = "idle"
    /\ UNCHANGED <<nHeight, nHeightEnd, nMaxTries, nNonce, blockHashes, keepScript,
                   scriptKept, fRequestShutdown, genResult>>
    /\ UNCHANGED genHistVars
    /\ UNCHANGED notGenVars

\* Shutdown is requested: ShutdownRequested() turns true.
StartShutdown ==
    /\ ~fRequestShutdown
    /\ genPc # "idle"
    /\ fRequestShutdown' = TRUE
    /\ UNCHANGED <<genPc, nHeight, nHeightEnd, nMaxTries, nNonce, blockHashes,
                   keepScript, scriptKept, genResult>>
    /\ UNCHANGED genHistVars
    /\ UNCHANGED notGenVars

\* generateBlocks is not running.
GenIdle ==
    /\ genPc = "idle"
    /\ nHeight = 0
    /\ nHeightEnd = 0
    /\ nMaxTries = 0
    /\ nNonce = 0
    /\ blockHashes = 0
    /\ keepScript = FALSE
    /\ scriptKept = FALSE
    /\ fRequestShutdown = FALSE
    /\ genResult = GenNoResult
    /\ genCaller = "none"
    /\ genBudget = 0
    /\ genTried = 0
    /\ genFailed = 0
    /\ genPowOk = FALSE
    /\ genTemplates = 0
    /\ genSubmitted = 0
    /\ genAccepted = 0

(***************************************************************************)
(* submitblock and submitheader (rpc/mining.cpp).                          *)
(*                                                                         *)
(* ProcessNewBlock, ProcessNewBlockHeaders and the block index are not in  *)
(* rpc/mining.cpp; what they may do is ProcessNewBlockOutcomes and         *)
(* HeaderStates. A ProcessNewBlock call is one step: the BlockChecked      *)
(* signal reaches every registered catcher before the call returns.        *)
(***************************************************************************)
SubCallers == {"s1", "s2"}
\* Hashes of the blocks that are submitted.
SubBlocks == {"b1", "b2"}
\* Submitted bytes: the serialization of a block, bytes that do not decode,
\* or a block whose first transaction is not a coinbase.
SubBytes == SubBlocks \cup {"garbage", "nocoinbase"}
\* GetRejectReason() of an invalid state; it may be empty.
RejectReasons == {"bad-txnmrklroot", ""}

\* CValidationState: MODE_VALID, MODE_INVALID with a reject reason, MODE_ERROR.
ValidState == [mode |-> "valid", reason |-> ""]
InvalidState(r) == [mode |-> "invalid", reason |-> r]
ErrorState == [mode |-> "error", reason |-> "System error"]
\* No BlockChecked signal.
NoSignal == [mode |-> "none", reason |-> ""]
IsValid(state) == state.mode = "valid"
IsInvalid(state) == state.mode = "invalid"
IsError(state) == state.mode = "error"
\* FormatStateMessage: the reject reason followed by the reject code.
FormatStateMessage(state) ==
    CASE state.reason = "" -> " (code 0)"
      [] state.reason = "bad-txnmrklroot" -> "bad-txnmrklroot (code 16)"
      [] OTHER -> "System error (code 0)"

SubNoResult == [kind |-> "none", code |-> "", message |-> ""]
\* return a JSON value; "null" is NullUniValue
SubValue(v) == [kind |-> "value", code |-> "", message |-> v]
\* throw JSONRPCError(code, message)
SubThrow(code, message) == [kind |-> "error", code |-> code, message |-> message]
\* An exception that is not a JSONRPCError leaves the call.
SubException == [kind |-> "error", code |-> "exception", message |-> ""]

\* Variant: an error state is not thrown.
BIP22ValidationResult_ErrorReturned(state) ==
    IF IsValid(state)
      THEN SubValue("null")
      ELSE IF IsInvalid(state)
             THEN IF state.reason = "" THEN SubValue("rejected")
                                       ELSE SubValue(state.reason)
             ELSE SubValue("valid?")

\* Lines 605-621.
BIP22ValidationResult(state) ==
    IF IsValid(state)
      THEN SubValue("null")
      ELSE IF IsError(state)
             THEN SubThrow("RPC_VERIFY_ERROR", FormatStateMessage(state))
             ELSE IF IsInvalid(state)
                    THEN IF state.reason = "" THEN SubValue("rejected")
                                              ELSE SubValue(state.reason)
                    ELSE SubValue("valid?")

\* Line 1133: the catcher as constructed.
NewStateCatcher == [found |-> FALSE, state |-> ValidState]

\* Status of a block's index entry:
\*   "absent"  no entry           "header"  the header only
\*   "stored"  the block is stored, not connected
\*   "valid"   connected: IsValid(BLOCK_VALID_SCRIPTS)
\*   "failed"  nStatus & BLOCK_FAILED_MASK
IndexStatus == {"absent", "header", "stored", "valid", "failed"}

\* What a call of ProcessNewBlock may do on a block whose index entry has
\* status st: the value it returns, *fNewBlock, the state it signals through
\* BlockChecked (or NoSignal) and the status it leaves. A block is new once,
\* a block signalled valid is connected, and a connected block stays so.
ProcessNewBlockOutcomes(st) ==
    IF st \in {"absent", "header"}
      THEN {[accepted |-> FALSE, new_block |-> FALSE, signal |-> InvalidState(r),
             index |-> i] : r \in RejectReasons, i \in {st, "failed"}}
           \cup {[accepted |-> TRUE, new_block |-> TRUE, signal |-> NoSignal,
                  index |-> "stored"],
                 [accepted |-> TRUE, new_block |-> TRUE, signal |-> ValidState,
                  index |-> "valid"],
                 [accepted |-> FALSE, new_block |-> TRUE, signal |-> ErrorState,
                  index |-> "stored"]}
           \cup {[accepted |-> TRUE, new_block |-> TRUE, signal |-> InvalidState(r),
                  index |-> "failed"] : r \in RejectReasons}
      ELSE IF st = "stored"
             THEN {[accepted |-> TRUE, new_block |-> FALSE, signal |-> NoSignal,
                    index |-> "stored"],
                   [accepted |-> TRUE, new_block |-> FALSE, signal |-> ValidState,
                    index |-> "valid"],
                   [accepted |-> FALSE, new_block |-> FALSE, signal |-> ErrorState,
                    index |-> "stored"]}
                  \cup {[accepted |-> TRUE, new_block |-> FALSE,
                         signal |-> InvalidState(r), index |-> "failed"] :
                            r \in RejectReasons}
             ELSE IF st = "valid"
                    THEN {[accepted |-> TRUE, new_block |-> FALSE,
                           signal |-> NoSignal, index |-> "valid"]}
                    ELSE {[accepted |-> FALSE, new_block |-> FALSE,
                           signal |-> InvalidState(r), index |-> "failed"] :
                              r \in RejectReasons}

\* Everything a call of ProcessNewBlock may do.
ProcessNewBlockEffects == UNION {ProcessNewBlockOutcomes(st) : st \in IndexStatus}

\* The states ProcessNewBlockHeaders may leave in `state`.
HeaderStates == {ValidState, ErrorState} \cup {InvalidState(r) : r \in RejectReasons}

\* Variant: the catcher takes the state of any block.
BlockChecked_AnyHash(d, block, stateIn) == [found |-> TRUE, state |-> stateIn]

\* Lines 1138-1143: BlockChecked on the catcher of caller d.
BlockChecked(d, block, stateIn) ==
    IF block # subHash[d] THEN sc[d] ELSE [found |-> TRUE, state |-> stateIn]

\* The locals of a call that is not running.
SubFrameGone(c) ==
    /\ sc' = [sc EXCEPT ![c] = NewStateCatcher]
    /\ subAccepted' = [subAccepted EXCEPT ![c] = FALSE]
    /\ subNewBlock' = [subNewBlock EXCEPT ![c] = FALSE]
    /\ subOnConnected' = [subOnConnected EXCEPT ![c] = FALSE]

\* Lines 1166-1198: DecodeHexBlk, the coinbase test and the lookup of the
\* block's hash in the index. UpdateUncommittedBlockStructures changes the
\* local block only.
\*   bytes  request.params[0]
submitblock(c, bytes) ==
    /\ ~subCrashed
    /\ subPc[c] = "idle"
    /\ subCall' = [subCall EXCEPT ![c] = "submitblock"]
    /\ SubFrameGone(c)
    /\ IF bytes \notin SubBlocks
         THEN /\ subPc' = [subPc EXCEPT ![c] = "done"]
              /\ subResult' = [subResult EXCEPT ![c] =
                     SubThrow("RPC_DESERIALIZATION_ERROR",
                              IF bytes = "garbage"
                                THEN "Block decode failed"
                                ELSE "Block does not start with a coinbase")]
              /\ subHash' = [subHash EXCEPT ![c] = "none"]
              /\ subAfterNull' = [subAfterNull EXCEPT ![c] = FALSE]
         ELSE /\ subHash' = [subHash EXCEPT ![c] = bytes]
              /\ subAfterNull' = [subAfterNull EXCEPT ![c] = bytes \in subNulls]
              /\ IF blockIndex[bytes] = "valid"
                   THEN /\ subPc' = [subPc EXCEPT ![c] = "done"]
                        /\ subResult' = [subResult EXCEPT ![c] = SubValue("duplicate")]
                   ELSE IF blockIndex[bytes] = "failed"
                          THEN /\ subPc' = [subPc EXCEPT ![c] = "done"]
                               /\ subResult' = [subResult EXCEPT ![c] =
                                      SubValue("duplicate-invalid")]
                          ELSE /\ subPc' = [subPc EXCEPT ![c] = "catch"]
                               /\ subResult' = [subResult EXCEPT ![c] = SubNoResult]
    /\ UNCHANGED <<blockIndex, validationInterfaces, subDangling, subCrashed, subNulls>>
    /\ UNCHANGED notSubVars

\* Lines 1201-1202: the catcher is constructed and registered.
RegisterValidationInterface(c) ==
    /\ ~subCrashed
    /\ subPc[c] = "catch"
    /\ subPc' = [subPc EXCEPT ![c] = "registered"]
    /\ validationInterfaces' = validationInterfaces \cup {c}
    /\ UNCHANGED <<subCall, subHash, sc, subAccepted, subNewBlock, subResult,
                   blockIndex, subDangling, subCrashed>>
    /\ UNCHANGED subHistVars
    /\ UNCHANGED notSubVars

\* Line 1203: ProcessNewBlock returns.
\*   o  what ProcessNewBlock does
ProcessNewBlock(c, o) ==
    /\ ~subCrashed
    /\ subPc[c] = "registered"
    /\ o \in ProcessNewBlockOutcomes(blockIndex[subHash[c]])
    /\ subPc' = [subPc EXCEPT ![c] = "processed"]
    /\ subAccepted' = [subAccepted EXCEPT ![c] = o.accepted]
    /\ subNewBlock' = [subNewBlock EXCEPT ![c] = o.new_block]
    /\ blockIndex' = [blockIndex EXCEPT ![subHash[c]] = o.index]
    /\ sc' = [d \in SubCallers |->
                 IF d \in validationInterfaces /\ o.signal # NoSignal
                   THEN BlockChecked(d, subHash[c], o.signal)
                   ELSE sc[d]]
    /\ subOnConnected' = [subOnConnected EXCEPT ![c] = (blockIndex[subHash[c]] = "valid")]
    /\ UNCHANGED <<subCall, subHash, subResult, validationInterfaces, subDangling,
                   subCrashed>>
    /\ UNCHANGED <<subNulls, subAfterNull>>
    /\ UNCHANGED notSubVars

\* Line 1203: an exception leaves ProcessNewBlock. It passes line 1204; the
\* catcher is destroyed with the frame and stays registered.
ProcessNewBlockThrows(c) ==
    /\ ~subCrashed
    /\ subPc[c] = "registered"
    /\ subPc' = [subPc EXCEPT ![c] = "done"]
    /\ subResult' = [subResult EXCEPT ![c] = SubException]
    /\ validationInterfaces' = validationInterfaces \ {c}
    /\ subDangling' = TRUE
    /\ SubFrameGone(c)
    /\ UNCHANGED <<subCall, subHash, blockIndex, subCrashed>>
    /\ UNCHANGED <<subNulls, subAfterNull>>
    /\ UNCHANGED notSubVars

\* A BlockChecked signal is delivered to a destroyed catcher. The behaviour
\* is undefined: the write goes unnoticed (ProcessNewBlock above), or the
\* process ends here.
BlockCheckedOnDestroyed(c) ==
    /\ ~subCrashed
    /\ subPc[c] = "registered"
    /\ subDangling
    /\ \E o \in ProcessNewBlockOutcomes(blockIndex[subHash[c]]) : o.signal # NoSignal
    /\ subCrashed' = TRUE
    /\ subPc' = [d \in SubCallers |-> "idle"]
    /\ subCall' = [d \in SubCallers |-> "none"]
    /\ subHash' = [d \in SubCallers |-> "none"]
    /\ sc' = [d \in SubCallers |-> NewStateCatcher]
    /\ subAccepted' = [d \in SubCallers |-> FALSE]
    /\ subNewBlock' = [d \in SubCallers |-> FALSE]
    /\ subResult' = [d \in SubCallers |-> SubNoResult]
    /\ subAfterNull' = [d \in SubCallers |-> FALSE]
    /\ subOnConnected' = [d \in SubCallers |-> FALSE]
    /\ validationInterfaces' = {}
    /\ UNCHANGED <<blockIndex, subDangling, subNulls>>
    /\ UNCHANGED notSubVars

\* Variant: the test of accepted is inverted.
SubNotNew_Refused(newBlock, acc) == ~newBlock /\ ~acc

\* Line 1205: !new_block && accepted
SubNotNew(newBlock, acc) == ~newBlock /\ acc

\* Variant: the test of the catcher comes first.
SubReturnValue_FoundFirst(c) ==
    IF ~sc[c].found
      THEN SubValue("inconclusive")
      ELSE IF SubNotNew(subNewBlock[c], subAccepted[c])
             THEN SubValue("duplicate")
             ELSE BIP22ValidationResult(sc[c].state)

\* Lines 1205-1211: the value submitblock returns after ProcessNewBlock.
SubReturnValue(c) ==
    IF SubNotNew(subNewBlock[c], subAccepted[c])
      THEN SubValue("duplicate")
      ELSE IF ~sc[c].found
             THEN SubValue("inconclusive")
             ELSE BIP22ValidationResult(sc[c].state)

\* Lines 1204-1211: the catcher is unregistered and submitblock returns.
UnregisterValidationInterface(c) ==
    /\ ~subCrashed
    /\ subPc[c] = "processed"
    /\ subPc' = [subPc EXCEPT ![c] = "done"]
    /\ validationInterfaces' = validationInterfaces \ {c}
    /\ subResult' = [subResult EXCEPT ![c] = SubReturnValue(c)]
    /\ subNulls' = IF SubReturnValue(c) = SubValue("null")
                     THEN subNulls \cup {subHash[c]}
                     ELSE subNulls
    /\ SubFrameGone(c)
    /\ UNCHANGED <<subCall, subHash, blockIndex, subDangling, subCrashed>>
    /\ UNCHANGED subAfterNull
    /\ UNCHANGED notSubVars

\* Lines 1235-1251: the value submitheader returns or throws.
\*   decoded    whether DecodeHexBlockHeader succeeds
\*   prevKnown  LookupBlockIndex(h.hashPrevBlock)
\*   state      the state ProcessNewBlockHeaders leaves
SubHeaderResult(decoded, prevKnown, state) ==
    IF ~decoded
      THEN SubThrow("RPC_DESERIALIZATION_ERROR", "Block header decode failed")
      ELSE IF ~prevKnown
             THEN SubThrow("RPC_VERIFY_ERROR", "Must submit previous header first")
             ELSE IF IsValid(state)
                    THEN SubValue("null")
                    ELSE IF IsError(state)
                           THEN SubThrow("RPC_VERIFY_ERROR", FormatStateMessage(state))
                           ELSE SubThrow("RPC_VERIFY_ERROR", state.reason)

\* Lines 1214-1252: submitheader. An accepted header of a block that has no
\* index entry gives it one.
\*   bytes  request.params[0]: the header of a block, or bytes that do not decode
submitheader(c, bytes, prevKnown, state) ==
    /\ ~subCrashed
    /\ subPc[c] = "idle"
    /\ subPc' = [subPc EXCEPT ![c] = "done"]
    /\ subCall' = [subCall EXCEPT ![c] = "submitheader"]
    /\ subResult' = [subResult EXCEPT ![c] =
           SubHeaderResult(bytes \in SubBlocks, prevKnown, state)]
    /\ blockIndex' =
           IF bytes \in SubBlocks /\ prevKnown /\ IsValid(state)
              /\ blockIndex[bytes] = "absent"
             THEN [blockIndex EXCEPT ![bytes] = "header"]
             ELSE blockIndex
    /\ UNCHANGED <<subHash, sc, subAccepted, subNewBlock,
                   validationInterfaces, subDangling, subCrashed>>
    /\ UNCHANGED subHistVars
    /\ UNCHANGED notSubVars

\* The call has returned or thrown; the caller may call again.
SubExit(c) ==
    /\ ~subCrashed
    /\ subPc[c] = "done"
    /\ subPc' = [subPc EXCEPT ![c] = "idle"]
    /\ subCall' = [subCall EXCEPT ![c] = "none"]
    /\ subHash' = [subHash EXCEPT ![c] = "none"]
    /\ subResult' = [subResult EXCEPT ![c] = SubNoResult]
    /\ subAfterNull' = [subAfterNull EXCEPT ![c] = FALSE]
    /\ UNCHANGED <<sc, subAccepted, subNewBlock, blockIndex, validationInterfaces,
                   subDangling, subCrashed>>
    /\ UNCHANGED <<subNulls, subOnConnected>>
    /\ UNCHANGED notSubVars

\* No call of submitblock or submitheader is running; the index is empty.
SubIdle ==
    /\ subPc = [c \in SubCallers |-> "idle"]
    /\ subCall = [c \in SubCallers |-> "none"]
    /\ subHash = [c \in SubCallers |-> "none"]
    /\ sc = [c \in SubCallers |-> NewStateCatcher]
    /\ subAccepted = [c \in SubCallers |-> FALSE]
    /\ subNewBlock = [c \in SubCallers |-> FALSE]
    /\ subResult = [c \in SubCallers |-> SubNoResult]
    /\ blockIndex = [b \in SubBlocks |-> "absent"]
    /\ validationInterfaces = {}
    /\ subDangling = FALSE
    /\ subCrashed = FALSE
    /\ subNulls = {}
    /\ subAfterNull = [c \in SubCallers |-> FALSE]
    /\ subOnConnected = [c \in SubCallers |-> FALSE]

(***************************************************************************)
(* getblocktemplate: the request, proposal mode, the segwit rule and the   *)
(* version bits of the answer (rpc/mining.cpp).                            *)
(*                                                                         *)
(* The call holds cs_main except in the long poll, so the tip changes      *)
(* only while no call runs or the call waits in the long poll.             *)
(* Whether the cached template is replaced on an unchanged tip is an       *)
(* input of ReqUpdate; Spec has the test itself.                           *)
(***************************************************************************)
\* VersionBitsDeploymentInfo[pos].name for the deployment positions.
VBDeployments == <<"csv", "segwit">>
\* Consensus::DEPLOYMENT_SEGWIT
DEPLOYMENT_SEGWIT == 2
DeploymentPos == 1..Len(VBDeployments)
ThresholdStates == {"DEFINED", "STARTED", "LOCKED_IN", "ACTIVE", "FAILED"}
\* The value of maxversion when the key is absent or not a number.
NoMaxVersion == -1

\* request.params[0]:
\*   isNull      no template_request
\*   mode        "absent", "nonstring", or the string
\*   longpollid  whether the key is present
\*   data        "absent" (not a string), "garbage", or the hash of the block
\*   hasRules    whether rules is an array
\*   rules       the strings of the array
\*   maxversion  the number, or NoMaxVersion
NullRequest ==
    [isNull |-> TRUE, mode |-> "absent", longpollid |-> FALSE, data |-> "absent",
     hasRules |-> FALSE, rules |-> {}, maxversion |-> NoMaxVersion]
\* {"rules": ["segwit"]}
SegwitRequest ==
    [isNull |-> FALSE, mode |-> "absent", longpollid |-> FALSE, data |-> "absent",
     hasRules |-> TRUE, rules |-> {VBDeployments[DEPLOYMENT_SEGWIT]},
     maxversion |-> NoMaxVersion]
TemplateRequests ==
    {[isNull |-> FALSE, mode |-> "template", longpollid |-> lp, data |-> "absent",
      hasRules |-> TRUE, rules |-> r, maxversion |-> NoMaxVersion] :
         lp \in BOOLEAN, r \in SUBSET {VBDeployments[pos] : pos \in DeploymentPos}}
    \cup {[isNull |-> FALSE, mode |-> "template", longpollid |-> FALSE,
           data |-> "absent", hasRules |-> FALSE, rules |-> {}, maxversion |-> v] :
              v \in {NoMaxVersion, 1, 2}}
    \cup {SegwitRequest}
ProposalRequests ==
    {[isNull |-> FALSE, mode |-> "proposal", longpollid |-> lp, data |-> d,
      hasRules |-> FALSE, rules |-> {}, maxversion |-> NoMaxVersion] :
         d \in {"absent", "garbage", "b1"}, lp \in BOOLEAN}
OtherRequests ==
    {[isNull |-> FALSE, mode |-> m, longpollid |-> FALSE, data |-> "absent",
      hasRules |-> FALSE, rules |-> {}, maxversion |-> NoMaxVersion] :
         m \in {"nonstring", "other"}}
Requests == {NullRequest} \cup TemplateRequests \cup ProposalRequests \cup OtherRequests

ReqNoResult ==
    [kind |-> "none", code |-> "", message |-> "", version |-> {}, rules |-> <<>>,
     vbavailable |-> {}, versionForce |-> FALSE]
\* A value or an error without a template.
ReqOf(r) ==
    [kind |-> r.kind, code |-> r.code, message |-> r.message, version |-> {},
     rules |-> <<>>, vbavailable |-> {}, versionForce |-> FALSE]
ReqThrow(code, message) == ReqOf(SubThrow(code, message))
\* Lines 1041-1051: version, rules, vbavailable and the "version/force" entry
\* of mutable.
ReqTemplate(version, rules, vbavailable, versionForce) ==
    [kind |-> "template", code |-> "", message |-> "", version |-> version,
     rules |-> rules, vbavailable |-> vbavailable, versionForce |-> versionForce]

\* Lines 750-800: what the request sets before the mode is tested.
ParsedRequest(params) ==
    [strMode |-> IF params.isNull \/ params.mode = "absent" THEN "template"
                                                            ELSE params.mode,
     lpval |-> ~params.isNull /\ params.longpollid,
     setClientRules |-> IF ~params.isNull /\ params.hasRules THEN params.rules ELSE {},
     nMaxVersionPreVB |-> IF ~params.isNull /\ ~params.hasRules
                            THEN params.maxversion
                            ELSE NoMaxVersion]

\* No proposal was looked up.
NoProposal == [index |-> "none", prevIsTip |-> FALSE, state |-> NoSignal]

\* The states TestBlockValidity may leave in `state`.
TestBlockValidityStates == {ValidState} \cup {InvalidState(r) : r \in RejectReasons}

\* Variant: every block in the index is reported as "duplicate".
ProposalLookup_AllDuplicate(st) == "duplicate"

\* Lines 778-785: the answer for a proposal whose hash is in the index.
ProposalLookup(st) ==
    IF st = "valid"
      THEN "duplicate"
      ELSE IF st = "failed" THEN "duplicate-invalid" ELSE "duplicate-inconclusive"

\* Lines 768-794: proposal mode.
\*   data       the data key of the request
\*   st         the index status of the block's hash
\*   prevIsTip  block.hashPrevBlock == pindexPrev->GetBlockHash()
\*   state      the state TestBlockValidity leaves
ProposalResult(data, st, prevIsTip, state) ==
    IF data = "absent"
      THEN ReqThrow("RPC_TYPE_ERROR", "Missing data String key for proposal")
      ELSE IF data = "garbage"
             THEN ReqThrow("RPC_DESERIALIZATION_ERROR", "Block decode failed")
             ELSE IF st # "absent"
                    THEN ReqOf(SubValue(ProposalLookup(st)))
                    ELSE IF ~prevIsTip
                           THEN ReqOf(SubValue("inconclusive-not-best-prevblk"))
                           ELSE ReqOf(BIP22ValidationResult(state))

\* What of the inputs a proposal has read.
ProposalRead(data, st, prevIsTip, state) ==
    IF data \in {"absent", "garbage"}
      THEN NoProposal
      ELSE [index |-> st,
            prevIsTip |-> st = "absent" /\ prevIsTip,
            state |-> IF st = "absent" /\ prevIsTip THEN state ELSE NoSignal]

\* Variant: no mode is answered as a proposal.
ReqIsProposal_Never(mode) == FALSE

\* Line 765: if (strMode == "proposal")
ReqIsProposal(mode) == mode = "proposal"

\* Lines 750-803: the request is read; proposal mode is answered here.
ReqParse(params, st, prevIsTip, state) ==
    /\ reqPc = "idle"
    /\ reqParams' = params
    /\ strMode' = ParsedRequest(params).strMode
    /\ reqUpdated' = FALSE
    /\ reqLongPolled' = FALSE
    /\ IF ~params.isNull /\ params.mode = "nonstring"
         THEN /\ reqPc' = "done"
              /\ reqResult' = ReqThrow("RPC_INVALID_PARAMETER", "Invalid mode")
              /\ lpval' = FALSE
              /\ setClientRules' = {}
              /\ nMaxVersionPreVB' = NoMaxVersion
              /\ reqProposal' = NoProposal
         ELSE IF ReqIsProposal(ParsedRequest(params).strMode)
                THEN /\ reqPc' = "done"
                     /\ reqResult' = ProposalResult(params.data, st, prevIsTip, state)
                     /\ lpval' = ParsedRequest(params).lpval
                     /\ setClientRules' = {}
                     /\ nMaxVersionPreVB' = NoMaxVersion
                     /\ reqProposal' = ProposalRead(params.data, st, prevIsTip, state)
                ELSE /\ lpval' = ParsedRequest(params).lpval
                     /\ setClientRules' = ParsedRequest(params).setClientRules
                     /\ nMaxVersionPreVB' = ParsedRequest(params).nMaxVersionPreVB
                     /\ reqProposal' = NoProposal
                     /\ IF ParsedRequest(params).strMode # "template"
                          THEN /\ reqPc' = "done"
                               /\ reqResult' = ReqThrow("RPC_INVALID_PARAMETER",
                                                        "Invalid mode")
                          ELSE /\ reqPc' = "checks"
                               /\ reqResult' = ReqNoResult
    /\ UNCHANGED <<gbt_force, rpcbackcompatible, versionBitsState, templateOnTip,
                   nVersionBits>>
    /\ UNCHANGED notReqVars

\* Lines 805-846: the tests of the node's state and of the algorithm.
\*   connman     g_connman
\*   connected   g_connman->GetNodeCount(CONNECTIONS_ALL) != 0
\*   ibd         IsInitialBlockDownload()
\*   algoKnown   nPowAlgo != ALGO_NULL
\*   mnSynced    neither masternode test of lines 834-845 throws
ReqChecksResult(connman, connected, ibd, algoKnown, mnSynced) ==
    IF ~connman
      THEN ReqThrow("RPC_CLIENT_P2P_DISABLED",
                    "Error: Peer-to-peer functionality missing or disabled")
      ELSE IF ~connected
             THEN ReqThrow("RPC_CLIENT_NOT_CONNECTED", "Veles is not connected!")
             ELSE IF ibd
                    THEN ReqThrow("RPC_CLIENT_IN_INITIAL_DOWNLOAD",
                                  "Veles is downloading blocks...")
                    ELSE IF ~algoKnown
                           THEN ReqThrow("RPC_INVALID_PARAMETER", "Unknown algorithm")
                           ELSE IF ~mnSynced
                                  THEN ReqThrow("RPC_CLIENT_IN_INITIAL_DOWNLOAD",
                                                "Veles Core is syncing with network...")
                                  ELSE ReqNoResult

ReqChecks(connman, connected, ibd, algoKnown, mnSynced) ==
    /\ reqPc = "checks"
    /\ reqResult' = ReqChecksResult(connman, connected, ibd, algoKnown, mnSynced)
    /\ reqPc' = IF reqResult'.kind = "error"
                  THEN "done"
                  ELSE IF lpval THEN "longpoll" ELSE "segwit"
    /\ UNCHANGED <<reqParams, strMode, lpval, setClientRules, nMaxVersionPreVB,
                   gbt_force, rpcbackcompatible, versionBitsState, templateOnTip,
                   nVersionBits>>
    /\ UNCHANGED reqHistVars
    /\ UNCHANGED notReqVars

\* Lines 850-894: the long poll has ended.
\*   running  IsRPCRunning() after the wait
ReqLongPoll(running) ==
    /\ reqPc = "longpoll"
    /\ reqLongPolled' = TRUE
    /\ IF running
         THEN /\ reqPc' = "segwit"
              /\ UNCHANGED reqResult
         ELSE /\ reqPc' = "done"
              /\ reqResult' = ReqThrow("RPC_CLIENT_NOT_CONNECTED", "Shutting down")
    /\ UNCHANGED <<reqParams, strMode, lpval, setClientRules, nMaxVersionPreVB,
                   gbt_force, rpcbackcompatible, versionBitsState, templateOnTip,
                   nVersionBits>>
    /\ UNCHANGED <<reqUpdated, reqProposal>>
    /\ UNCHANGED notReqVars

\* Variant: the rule is inserted whatever -rpcbackcompatible is.
SegwitInserted_Always(rules, backcompatible) == TRUE

\* Lines 898-901: the segwit rule is missing and is inserted.
SegwitInserted(rules, backcompatible) ==
    VBDeployments[DEPLOYMENT_SEGWIT] \notin rules /\ backcompatible

\* Lines 896-906: the client rules after the test of the segwit rule.
SegwitRule(rules, backcompatible) ==
    IF SegwitInserted(rules, backcompatible)
      THEN rules \cup {"segwit"}
      ELSE rules

\* Lines 896-906.
ReqSegwitRule ==
    /\ reqPc = "segwit"
    /\ IF VBDeployments[DEPLOYMENT_SEGWIT] \in setClientRules
          \/ SegwitInserted(setClientRules, rpcbackcompatible)
         THEN /\ reqPc' = "update"
              /\ setClientRules' = SegwitRule(setClientRules, rpcbackcompatible)
              /\ UNCHANGED reqResult
         ELSE /\ reqPc' = "done"
              /\ reqResult' = ReqThrow("RPC_INVALID_PARAMETER",
                     "getblocktemplate must be called with the segwit rule set (call with {\"rules\": [\"segwit\"]})")
              /\ UNCHANGED setClientRules
    /\ UNCHANGED <<reqParams, strMode, lpval, nMaxVersionPreVB, gbt_force,
                   rpcbackcompatible, versionBitsState, templateOnTip, nVersionBits>>
    /\ UNCHANGED reqHistVars
    /\ UNCHANGED notReqVars

\* The deployment bits of the version of a new template: those of the
\* deployments that are STARTED or LOCKED_IN.
ComputeBlockVersion(states) ==
    {pos \in DeploymentPos : states[pos] \in {"STARTED", "LOCKED_IN"}}

\* Lines 908-940: the cached template is kept or replaced.
\*   stale    the test of line 913 on an unchanged tip
\*   created  whether CreateNewBlock returned a template
ReqUpdate(stale, created) ==
    /\ reqPc = "update"
    /\ IF templateOnTip /\ ~stale
         THEN /\ reqPc' = "versionbits"
              /\ UNCHANGED <<reqResult, templateOnTip, nVersionBits, reqUpdated>>
         ELSE IF created
                THEN /\ reqPc' = "versionbits"
                     /\ templateOnTip' = TRUE
                     /\ nVersionBits' = ComputeBlockVersion(versionBitsState)
                     /\ reqUpdated' = TRUE
                     /\ UNCHANGED reqResult
                ELSE /\ reqPc' = "done"
                     /\ reqResult' = ReqThrow("RPC_OUT_OF_MEMORY", "Out of memory")
                     /\ templateOnTip' = FALSE
                     /\ nVersionBits' = {}
                     /\ UNCHANGED reqUpdated
    /\ UNCHANGED <<reqParams, strMode, lpval, setClientRules, nMaxVersionPreVB,
                   gbt_force, rpcbackcompatible, versionBitsState>>
    /\ UNCHANGED <<reqLongPolled, reqProposal>>
    /\ UNCHANGED notReqVars

\* Lines 623-630.
gbt_vb_name(pos) ==
    IF gbt_force[pos] THEN VBDeployments[pos] ELSE "!" \o VBDeployments[pos]

\* Variant: a forced deployment is required as well.
VBNotSafe_ForceIgnored(pos, rules) == VBDeployments[pos] \notin rules

\* Lines 1019-1021 and 1031-1033: the client does not support the deployment
\* and it is not forced.
VBNotSafe(pos, rules) == VBDeployments[pos] \notin rules /\ ~gbt_force[pos]

\* Lines 1001-1039: one iteration of the loop over the deployments.
\*   acc  nVersion: the deployment bits of pblock->nVersion; aRules;
\*        vbavailable; thrown: the name in the exception, or ""
VBCase(acc, pos) ==
    IF versionBitsState[pos] \in {"DEFINED", "FAILED"}
      THEN acc
      ELSE IF versionBitsState[pos] \in {"LOCKED_IN", "STARTED"}
             THEN [nVersion |->
                       IF VBNotSafe(pos, setClientRules)
                         THEN acc.nVersion \ {pos}
                         ELSE IF versionBitsState[pos] = "LOCKED_IN"
                                THEN acc.nVersion \cup {pos}
                                ELSE acc.nVersion,
                   aRules |-> acc.aRules,
                   vbavailable |-> acc.vbavailable \cup {gbt_vb_name(pos)},
                   thrown |-> ""]
             ELSE [nVersion |-> acc.nVersion,
                   aRules |-> Append(acc.aRules, gbt_vb_name(pos)),
                   vbavailable |-> acc.vbavailable,
                   thrown |-> IF VBNotSafe(pos, setClientRules)
                                THEN VBDeployments[pos]
                                ELSE ""]

\* Lines 999-1040: the loop, from position j on; it ends at a throw.
RECURSIVE VBLoop(_, _)
VBLoop(acc, j) ==
    IF j > Len(VBDeployments) \/ acc.thrown # ""
      THEN acc
      ELSE VBLoop(VBCase(acc, j), j + 1)

\* Line 1034
UnsupportedRule(name) ==
    ReqThrow("RPC_INVALID_PARAMETER",
             "Support for '" \o name \o "' rule requires explicit client support")

\* Lines 997-1051: the deployments are written to the answer and to the
\* version of the cached template.
ReqVersionBits ==
    /\ reqPc = "versionbits"
    /\ reqPc' = "done"
    /\ LET acc == VBLoop([nVersion |-> nVersionBits, aRules |-> <<>>,
                          vbavailable |-> {}, thrown |-> ""], 1)
       IN /\ nVersionBits' = acc.nVersion
          /\ reqResult' = IF acc.thrown # ""
                            THEN UnsupportedRule(acc.thrown)
                            ELSE ReqTemplate(acc.nVersion, acc.aRules, acc.vbavailable,
                                             nMaxVersionPreVB >= 2)
    /\ UNCHANGED <<reqParams, strMode, lpval, setClientRules, nMaxVersionPreVB,
                   gbt_force, rpcbackcompatible, versionBitsState, templateOnTip>>
    /\ UNCHANGED reqHistVars
    /\ UNCHANGED notReqVars

\* The call has returned or thrown; the next call may come.
ReqExit ==
    /\ reqPc = "done"
    /\ reqPc' = "idle"
    /\ reqParams' = NullRequest
    /\ strMode' = "template"
    /\ lpval' = FALSE
    /\ setClientRules' = {}
    /\ nMaxVersionPreVB' = NoMaxVersion
    /\ reqResult' = ReqNoResult
    /\ reqUpdated' = FALSE
    /\ reqLongPolled' = FALSE
    /\ reqProposal' = NoProposal
    /\ UNCHANGED <<gbt_force, rpcbackcompatible, versionBitsState, templateOnTip,
                   nVersionBits>>
    /\ UNCHANGED notReqVars

\* A block is connected: the deployments may change state and the cached
\* template is no longer on the tip.
\*   states  VersionBitsState on the new tip
ReqNewTip(states) ==
    /\ reqPc \in {"idle", "longpoll"}
    /\ states # versionBitsState \/ templateOnTip
    /\ versionBitsState' = states
    /\ templateOnTip' = FALSE
    /\ UNCHANGED <<reqPc, reqParams, strMode, lpval, setClientRules, nMaxVersionPreVB,
                   reqResult, gbt_force, rpcbackcompatible, nVersionBits>>
    /\ UNCHANGED reqHistVars
    /\ UNCHANGED notReqVars

\* No call is running and nothing is cached.
\*   force          the gbt_force column of VersionBitsDeploymentInfo
\*   backcompatible -rpcbackcompatible
ReqIdleWith(force, backcompatible) ==
    /\ reqPc = "idle"
    /\ reqParams = NullRequest
    /\ strMode = "template"
    /\ lpval = FALSE
    /\ setClientRules = {}
    /\ nMaxVersionPreVB = NoMaxVersion
    /\ reqResult = ReqNoResult
    /\ gbt_force = force
    /\ rpcbackcompatible = backcompatible
    /\ versionBitsState = [pos \in DeploymentPos |-> "DEFINED"]
    /\ templateOnTip = FALSE
    /\ nVersionBits = {}
    /\ reqUpdated = FALSE
    /\ reqLongPolled = FALSE
    /\ reqProposal = NoProposal

ReqIdle == ReqIdleWith([pos \in DeploymentPos |-> TRUE], FALSE)

(***************************************************************************)
(* The active chain and the calls that read it: GetNetworkHashPS,          *)
(* GetLastAlgoBlock, getnetworkhashps, getmininginfo and getmultialgoinfo  *)
(* (rpc/mining.cpp).                                                       *)
(*                                                                         *)
(* chainActive holds the entry of every height, the genesis entry first;   *)
(* pprev of an entry is the entry one height below it. nVersion of an      *)
(* entry is kept as the value of nVersion & ALGO_VERSION_MASK, the only    *)
(* part these calls read. A call is one step: it runs under cs_main, so    *)
(* the chain does not change while it reads.                               *)
(* chainActive.Tip() is null only until the genesis block is connected,    *)
(* before the node answers calls; the chains of the model have a tip.      *)
(***************************************************************************)
\* Entries of the active chain at most.
MaxChain == 3
\* Block times are 1..MaxBlockTime; they need not grow along the chain.
MaxBlockTime == 2
\* arith_uint256 wraps at 2^256; the model's chain work wraps at WorkModulus.
WorkModulus == 16
\* Params().GetConsensus().DifficultyAdjustmentInterval()
DifficultyAdjustmentInterval == 2

\* The algorithms of the blocks of the model, and the ones asked about.
ChainAlgos == {ALGO_SCRYPT, ALGO_X16R}
InfoAlgos == ChainAlgos \cup {ALGO_LYRA2Z}
\* The six rows of getmultialgoinfo (mining.cpp:487).
MultiAlgos ==
    <<ALGO_SHA256D, ALGO_SCRYPT, ALGO_LYRA2Z, ALGO_X11, ALGO_X16R, ALGO_NIST5>>
\* The arguments of getnetworkhashps in the model; 120 is the default.
InfoLookups == (-1..(MaxChain + 1)) \cup {120}
InfoHeights == -1..MaxChain

Max(a, b) == IF a >= b THEN a ELSE b

\* A null CBlockIndex pointer.
nullptr == [nHeight |-> -1]

\* chainActive.Tip(), chainActive.Height() and chainActive[height].
ChainTip == IF Len(chainActive) = 0 THEN nullptr ELSE chainActive[Len(chainActive)]
ChainHeight == Len(chainActive) - 1
ChainAt(height) ==
    IF height < 0 \/ height > ChainHeight THEN nullptr ELSE chainActive[height + 1]
\* CBlockIndex::pprev
pprev(e) == ChainAt(e.nHeight - 1)

\* GetBlockProof: the work of one block of an algorithm.
GetBlockProof(nVersion) == IF nVersion = ALGO_SCRYPT THEN 2 ELSE 1

\* nChainWorkAlgo of the most recent entry of the algorithm at or below e, 0
\* when there is none.
RECURSIVE ChainWorkAlgoBefore(_, _)
ChainWorkAlgoBefore(e, nAlgo) ==
    IF e = nullptr THEN 0
    ELSE IF e.nVersion = nAlgo THEN e.nChainWorkAlgo
    ELSE ChainWorkAlgoBefore(pprev(e), nAlgo)

\* GetDifficulty(blockindex): the difficulty of the entry's nBits.
GetDifficulty(e) == [target |-> e.nBits]

\* No call is running.
NoInfoCall == [kind |-> "none"]

\* The index entry of a block on top of prev (nullptr for the genesis
\* block). Its cumulative work is that of its predecessor plus its own; its
\* per-algorithm work is that of the most recent block of its algorithm
\* plus its own. Every block of the model has its own nBits, so that a
\* difficulty names the block it is read from.
NewBlockIndex(prev, nVersion, nTime) ==
    [nHeight |-> prev.nHeight + 1,
     nVersion |-> nVersion,
     nTime |-> nTime,
     nBits |-> prev.nHeight + 2,
     nChainWork |->
         (IF prev = nullptr THEN 0 ELSE prev.nChainWork) + GetBlockProof(nVersion),
     nChainWorkAlgo |->
         ChainWorkAlgoBefore(prev, nVersion) + GetBlockProof(nVersion)]

\* A block is connected to the tip.
ConnectTip(nVersion, nTime) ==
    /\ infoCall = NoInfoCall
    /\ Len(chainActive) < MaxChain
    /\ chainActive' = Append(chainActive, NewBlockIndex(ChainTip, nVersion, nTime))
    /\ UNCHANGED infoCall
    /\ UNCHANGED notChainVars

\* mining.cpp:49-52: the entry the estimate starts from.
HpsUsesHeight_NoUpperTest(height) == height >= 0
HpsUsesHeight(height) == height >= 0 /\ height < ChainHeight
HpsEntry(height) == IF HpsUsesHeight(height) THEN ChainAt(height) ELSE ChainTip

\* mining.cpp:58-63: the window.
HpsClamp_Kept(lookup, pb) == lookup
HpsClamp(lookup, pb) == IF lookup > pb.nHeight THEN pb.nHeight ELSE lookup
HpsLookup(lookup, pb) ==
    HpsClamp(IF lookup <= 0
             THEN (pb.nHeight % DifficultyAdjustmentInterval) + 1
             ELSE lookup, pb)

\* mining.cpp:65-73: the walk back. w holds pb0, minTime, maxTime and i; a
\* step from the genesis entry reads the time of a null entry (fault).
RECURSIVE HpsWalk(_, _)
HpsWalk(w, lookup) ==
    IF w.fault \/ ~(w.i < lookup) THEN w
    ELSE LET pb0 == pprev(w.pb0) IN
         IF pb0 = nullptr
         THEN [w EXCEPT !.pb0 = nullptr, !.fault = TRUE]
         ELSE HpsWalk([pb0 |-> pb0,
                       minTime |-> Min(pb0.nTime, w.minTime),
                       maxTime |-> Max(pb0.nTime, w.maxTime),
                       i |-> w.i + 1,
                       fault |-> FALSE], lookup)

\* mining.cpp:82 and 84: back to the first entry of the algorithm, or to the
\* genesis entry.
RECURSIVE HpsAlgoScan(_, _)
HpsAlgoScan(e, nAlgo) ==
    IF pprev(e) # nullptr /\ nAlgo # e.nVersion
    THEN HpsAlgoScan(pprev(e), nAlgo)
    ELSE e

\* arith_uint256 subtraction (mining.cpp:79, 85).
HpsWorkSub_Signed(a, b) == a - b
HpsWorkSub(a, b) == IF a >= b THEN a - b ELSE a - b + WorkModulus

\* mining.cpp:79-85: workDiff is first the difference of nChainWork and is
\* then overwritten by the difference of nChainWorkAlgo.
HpsWorkDiff(pb, pb0, pbAlgo, pb0Algo) ==
    LET workDiff == HpsWorkSub(pb.nChainWork, pb0.nChainWork) IN
    LET workDiff2 == HpsWorkSub(pbAlgo.nChainWorkAlgo, pb0Algo.nChainWorkAlgo) IN
    workDiff2

\* What GetNetworkHashPS returns: 0, or a quotient of a work and a time.
HpsZero == [num |-> 0, den |-> 1]
HpsQuotient(workDiff, timeDiff) == [num |-> workDiff, den |-> timeDiff]

\* The result of GetNetworkHashPS with what it read on the way: the height
\* of the entry it started from (-1 for a null entry), the window, the
\* steps walked, the heights of pb0 and of the two entries whose work is
\* subtracted, and the times.
HpsReturn(value, pb, lookup, w, pbAlgo, pb0Algo) ==
    [kind |-> "return", value |-> value, pb |-> pb.nHeight, lookup |-> lookup,
     walked |-> w.i, pb0 |-> w.pb0.nHeight, minTime |-> w.minTime,
     maxTime |-> w.maxTime, pbAlgo |-> pbAlgo.nHeight,
     pb0Algo |-> pb0Algo.nHeight]
HpsNoWalk(pb) == [pb0 |-> pb, minTime |-> 0, maxTime |-> 0, i |-> 0, fault |-> FALSE]

\* mining.cpp:48-90
GetNetworkHashPS(lookupIn, height, nAlgo) ==
    LET pb == HpsEntry(height) IN
    IF pb = nullptr \/ pb.nHeight = 0
    THEN HpsReturn(HpsZero, pb, lookupIn, HpsNoWalk(pb), nullptr, nullptr)
    ELSE LET lookup == HpsLookup(lookupIn, pb)
             w == HpsWalk([pb0 |-> pb, minTime |-> pb.nTime, maxTime |-> pb.nTime,
                           i |-> 0, fault |-> FALSE], lookup)
         IN  IF w.fault
             THEN [kind |-> "crash", what |-> "pb0->GetBlockTime() on a null pb0",
                   pb |-> pb.nHeight, lookup |-> lookup, walked |-> w.i]
             ELSE IF w.minTime = w.maxTime
             THEN HpsReturn(HpsZero, pb, lookup, w, nullptr, nullptr)
             ELSE LET pbAlgo == HpsAlgoScan(pb, nAlgo)
                      pb0Algo == HpsAlgoScan(w.pb0, nAlgo)
                  IN  HpsReturn(HpsQuotient(HpsWorkDiff(pb, w.pb0, pbAlgo, pb0Algo),
                                            w.maxTime - w.minTime),
                                pb, lookup, w, pbAlgo, pb0Algo)

\* mining.cpp:92-116. The algorithm is GetAlgoId of the name given, or
\* miningAlgo; ALGO_NULL, the identifier of an unknown name, is passed on as
\* it is (line 115).
getnetworkhashps(lookup, height, nAlgo) ==
    /\ infoCall = NoInfoCall
    /\ LET hps == GetNetworkHashPS(lookup, height, nAlgo) IN
       infoCall' = [kind |-> hps.kind, fn |-> "getnetworkhashps",
                    lookup |-> lookup, height |-> height, nAlgo |-> nAlgo,
                    hps |-> hps]
    /\ UNCHANGED chainActive
    /\ UNCHANGED notChainVars

\* mining.cpp:120-129
RECURSIVE LastAlgoScan(_, _)
LastAlgoScan(pb, nAlgo) ==
    IF pb.nVersion # nAlgo /\ pprev(pb) # nullptr
    THEN LastAlgoScan(pprev(pb), nAlgo)
    ELSE pb
GetLastAlgoBlock_Tip(nAlgo) == ChainTip
GetLastAlgoBlock(nAlgo) == LastAlgoScan(ChainTip, nAlgo)

\* mining.cpp:145-147
GetAlgoDifficulty(nAlgo) == GetDifficulty(GetLastAlgoBlock(nAlgo))

\* mining.cpp:303-327. The entries of the answer that come from the block
\* assembler, the mempool and the warnings are left out.
getmininginfo(nAlgoIn) ==
    /\ infoCall = NoInfoCall
    /\ infoCall' =
           IF nAlgoIn = ALGO_NULL
           THEN [kind |-> "throw", fn |-> "getmininginfo", nAlgo |-> nAlgoIn,
                 code |-> "RPC_INVALID_PARAMETER", message |-> "Unknown algorithm"]
           ELSE LET hps == GetNetworkHashPS(120, -1, nAlgoIn) IN
                [kind |-> hps.kind, fn |-> "getmininginfo", nAlgo |-> nAlgoIn,
                 blocks |-> ChainHeight,
                 difficulty |-> GetAlgoDifficulty(nAlgoIn),
                 algo |-> nAlgoIn,
                 networkhashps |-> hps]
    /\ UNCHANGED chainActive
    /\ UNCHANGED notChainVars

\* mining.cpp:485-497: one row for each of the six algorithms.
getmultialgoinfo ==
    /\ infoCall = NoInfoCall
    /\ infoCall' =
           [kind |-> "return", fn |-> "getmultialgoinfo",
            arr |-> [i \in DOMAIN MultiAlgos |->
                [algo |-> MultiAlgos[i],
                 difficulty |-> GetAlgoDifficulty(MultiAlgos[i]),
                 hashrate |-> GetNetworkHashPS(120, -1, MultiAlgos[i]),
                 last_block_index |-> GetLastAlgoBlock(MultiAlgos[i]).nHeight]]]
    /\ UNCHANGED chainActive
    /\ UNCHANGED notChainVars

\* The call returns to the RPC server; a stopped process stays stopped.
InfoExit ==
    /\ infoCall.kind \in {"return", "throw"}
    /\ infoCall' = NoInfoCall
    /\ UNCHANGED chainActive
    /\ UNCHANGED notChainVars

\* The node answers calls once the genesis block is connected.
ChainIdle ==
    /\ chainActive = <<NewBlockIndex(nullptr, ALGO_SCRYPT, 1)>>
    /\ infoCall = NoInfoCall

\* The same with every genesis block of the model.
ChainGenesis ==
    /\ \E nVersion \in ChainAlgos, nTime \in 1..MaxBlockTime :
           chainActive = <<NewBlockIndex(nullptr, nVersion, nTime)>>
    /\ infoCall = NoInfoCall

(***************************************************************************)
(* CBlockHeader::GetAlgoEfficiency and CBlockHeader::GetAlgoCostFactor     *)
(* (primitives/block.cpp).                                                 *)
(*                                                                         *)
(* The cost factors are kept in hundredths (10.00 is 1000) and a double    *)
(* result as the quotient num / den of two integers.                       *)
(***************************************************************************)
\* Block heights given to GetAlgoEfficiency: 0..MaxAlgoHeight.
MaxAlgoHeight == 2

\* block.cpp:58-80
GetAlgoEfficiency_OldNist5(nBlockHeight, nVersion) ==
    CASE nVersion.algo = ALGO_SHA256D -> 1
      [] nVersion.algo = ALGO_SCRYPT -> 12984
      [] nVersion.algo = ALGO_NIST5 -> 2631
      [] nVersion.algo = ALGO_LYRA2Z -> 1973648
      [] nVersion.algo = ALGO_X11 -> 513
      [] nVersion.algo = ALGO_X16R -> 257849
      [] OTHER -> 1
GetAlgoEfficiency(nBlockHeight, nVersion) ==
    CASE nVersion.algo = ALGO_SHA256D -> 1
      [] nVersion.algo = ALGO_SCRYPT -> 12984
      [] nVersion.algo = ALGO_NIST5 -> 513
      [] nVersion.algo = ALGO_LYRA2Z -> 1973648
      [] nVersion.algo = ALGO_X11 -> 513
      [] nVersion.algo = ALGO_X16R -> 257849
      [] OTHER -> 1

\* The initializer 18.25 of totalAdjustements (block.cpp:86), in hundredths.
TotalAdjustementsInit == 1825
\* A double given in hundredths converted to CAmount, an integer type: the
\* fraction is dropped.
CAmountOfDouble(hundredths) == hundredths \div 100
\* block.cpp:86: CAmount totalAdjustements = 18.25
totalAdjustements == CAmountOfDouble(TotalAdjustementsInit)

\* block.cpp:87-97: factor, in hundredths; 1 when no case matches.
AlgoCostFactorOf(nVersion) ==
    CASE nVersion.algo = ALGO_SHA256D -> 1000
      [] nVersion.algo = ALGO_SCRYPT -> 300
      [] nVersion.algo = ALGO_NIST5 -> 100
      [] nVersion.algo = ALGO_LYRA2Z -> 50
      [] nVersion.algo = ALGO_X11 -> 125
      [] nVersion.algo = ALGO_X16R -> 150
      [] OTHER -> 100

\* block.cpp:99: factor / (totalAdjustements / 6), the division in
\* parentheses between two integers.
GetAlgoCostFactor(nVersion) ==
    [num |-> AlgoCostFactorOf(nVersion), den |-> 100 * (totalAdjustements \div 6)]

NoAlgoResult == [fn |-> "none", value |-> 0]

\* header.GetAlgoEfficiency(nBlockHeight)
CallGetAlgoEfficiency ==
    /\ algoResult = NoAlgoResult
    /\ algoResult' = [fn |-> "GetAlgoEfficiency",
                      value |-> GetAlgoEfficiency(algoBlockHeight, algoVersion)]
    /\ UNCHANGED <<algoVersion, algoBlockHeight>>
    /\ UNCHANGED notAlgoVars

\* header.GetAlgoCostFactor()
CallGetAlgoCostFactor ==
    /\ algoResult = NoAlgoResult
    /\ algoResult' = [fn |-> "GetAlgoCostFactor",
                      value |-> GetAlgoCostFactor(algoVersion)]
    /\ UNCHANGED <<algoVersion, algoBlockHeight>>
    /\ UNCHANGED notAlgoVars

AlgoIdle ==
    /\ algoVersion = [top |-> VERSIONBITS_TOP_BITS, algo |-> ALGO_SCRYPT]
    /\ algoBlockHeight = 0
    /\ algoResult = NoAlgoResult

\* Every header version and block height of the model.
AlgoInit ==
    /\ algoVersion \in [top : VersionTops, algo : VersionAlgos]
    /\ algoBlockHeight \in 0..MaxAlgoHeight
    /\ algoResult = NoAlgoResult

(***************************************************************************)
(* The halving schedule and gethalvinginfo (rpc/mining.cpp).               *)
(*                                                                         *)
(* halvingParams is what GetSubsidyHalvingParameters() points to: the      *)
(* epochs, the halving counter and the halving interval. The schedule      *)
(* itself is kept by the validation code; here it follows the              *)
(* specification's state machine from the ALPHA epoch on, the three named  *)
(* epochs being set by the consensus parameters. Amounts are integers      *)
(* (CAmount).                                                              *)
(***************************************************************************)
\* consensus.nSubsidyHalvingInterval, the first halving interval.
InitialHalvingInterval == 1
\* The maximum block subsidy of the named epochs.
InitialMaxBlockSubsidy == 8
\* Blocks accepted at most, and epochs at most.
MaxHalvingHeight == 7
MaxEpochs == 6

\* HALVING_MIN_SUPPLY_TARGET and HALVING_MIN_BOOST_SUPPLY_TARGET, as
\* quotients.
HALVING_MIN_SUPPLY_TARGET == [num |-> 1, den |-> 2]
HALVING_MIN_BOOST_SUPPLY_TARGET == [num |-> 2, den |-> 5]
\* nDynamicRewardsBoostFactor of an epoch with a boost, in hundredths.
DynamicRewardsBoostFactors == {0, 50}
\* The fourths of the maximum subsidy a block may release.
SubsidyQuarters == {0, 1, 4}

NoHalvingInfo == [kind |-> "none"]

\* mining.cpp:378
knownEpochs == <<"COINSWAP", "BOOTSTRAP", "ALPHA">>

HalvingEpoch(halved, start, end, subsidy, boost, startSupply) ==
    [fIsSubsidyHalved |-> halved,
     nStartBlock |-> start,
     nEndBlock |-> end,
     nMaxBlockSubsidy |-> subsidy,
     nDynamicRewardsBoostFactor |-> boost,
     nStartSupply |-> startSupply,
     nEndSupply |-> 0,
     fHasEnded |-> FALSE]

EpochsBack == halvingParams.epochs[Len(halvingParams.epochs)]

\* supply_target of an epoch: max_block_subsidy * (end_block - start_block + 1).
EpochSupplyTarget(e) == e.nMaxBlockSubsidy * (e.nEndBlock - e.nStartBlock + 1)

\* R >= target for R = released / supply_target, and R < target.
SupplyRatioReached(released, supplyTarget, target) ==
    released * target.den >= target.num * supplyTarget
SupplyRatioBelow(released, supplyTarget, target) ==
    released * target.den < target.num * supplyTarget

\* The epoch that follows the ended epoch e from height h on, with the
\* counter and the interval that go with it.
NextEpoch_IntervalKept(e, h, boost) ==
    LET released == e.nEndSupply - e.nStartSupply
        halve == SupplyRatioReached(released, EpochSupplyTarget(e),
                                    HALVING_MIN_SUPPLY_TARGET)
        interval == halvingParams.nHalvingInterval
    IN  [epoch |-> HalvingEpoch(halve, h, h + interval - 1,
                                IF halve THEN e.nMaxBlockSubsidy \div 2
                                ELSE e.nMaxBlockSubsidy,
                                IF halve THEN 0 ELSE boost, e.nEndSupply),
         nHalvingCount |-> halvingParams.nHalvingCount + (IF halve THEN 1 ELSE 0),
         nHalvingInterval |-> interval]
NextEpoch(e, h, boost) ==
    LET released == e.nEndSupply - e.nStartSupply
        halve == SupplyRatioReached(released, EpochSupplyTarget(e),
                                    HALVING_MIN_SUPPLY_TARGET)
        interval == IF halve THEN 2 * halvingParams.nHalvingInterval
                    ELSE halvingParams.nHalvingInterval
    IN  [epoch |-> HalvingEpoch(halve, h, h + interval - 1,
                                IF halve THEN e.nMaxBlockSubsidy \div 2
                                ELSE e.nMaxBlockSubsidy,
                                IF halve THEN 0 ELSE boost, e.nEndSupply),
         nHalvingCount |-> halvingParams.nHalvingCount + (IF halve THEN 1 ELSE 0),
         nHalvingInterval |-> interval]

\* The boost of the epoch after e may be set only when e released less than
\* HALVING_MIN_BOOST_SUPPLY_TARGET of its target.
BoostAllowed(e, boost) ==
    \/ boost = 0
    \/ SupplyRatioBelow(nMoneySupply - e.nStartSupply, EpochSupplyTarget(e),
                        HALVING_MIN_BOOST_SUPPLY_TARGET)

\* A block is accepted at the next height. Above the end block of the
\* current epoch the epoch is ended with the supply before the block and a
\* new epoch starts at the block. The block releases quarters fourths of the
\* maximum subsidy of its epoch.
AcceptBlock(quarters, boost) ==
    LET h == nBestHeight + 1
        n == Len(halvingParams.epochs)
        ended == [EpochsBack EXCEPT !.fHasEnded = TRUE, !.nEndSupply = nMoneySupply]
        next == NextEpoch(ended, h, boost)
        boundary == h > EpochsBack.nEndBlock
        current == IF boundary THEN next.epoch ELSE EpochsBack
    IN  /\ halvingInfo = NoHalvingInfo
        /\ h <= MaxHalvingHeight
        /\ boundary => n < MaxEpochs /\ BoostAllowed(EpochsBack, boost)
        /\ ~boundary => boost = 0
        /\ halvingParams' =
               IF boundary
               THEN [epochs |-> Append([halvingParams.epochs EXCEPT ![n] = ended],
                                       next.epoch),
                     nHalvingCount |-> next.nHalvingCount,
                     nHalvingInterval |-> next.nHalvingInterval]
               ELSE halvingParams
        /\ nBestHeight' = h
        /\ nMoneySupply' = nMoneySupply + (current.nMaxBlockSubsidy * quarters) \div 4
        /\ UNCHANGED halvingInfo
        /\ UNCHANGED notHalvingVars

\* Satoshis in a coin, and ValueFromAmount: the coins and the remainder the
\* amount is printed with.
COIN == 4
ValueFromAmount(amount) == [coins |-> amount \div COIN, satoshis |-> amount % COIN]

\* CountBlockRewards(nStartBlock, chainActive.Height(), ...): the rewards of
\* the blocks from the first block of the epoch to the tip.
CountBlockRewards(e) == nMoneySupply - e.nStartSupply

\* mining.cpp:399-414 for entry i (counted from 1) with the counters c of
\* the entries before it.
EpochCounters_NamedCounted(c, e, i) ==
    LET halved == e.fIsSubsidyHalved
        named == i <= Len(knownEpochs)
    IN  [nHalvings |-> IF halved THEN c.nHalvings + 1 ELSE c.nHalvings,
         nEpochsAfterHalving |->
             IF halved THEN 0 ELSE c.nEpochsAfterHalving + 1,
         nSupplySinceHalving |->
             IF halved \/ named THEN 0 ELSE c.nSupplySinceHalving]
EpochCounters(c, e, i) ==
    LET halved == e.fIsSubsidyHalved
        named == i <= Len(knownEpochs)
    IN  [nHalvings |-> IF halved THEN c.nHalvings + 1 ELSE c.nHalvings,
         nEpochsAfterHalving |->
             IF halved \/ named THEN 0 ELSE c.nEpochsAfterHalving + 1,
         nSupplySinceHalving |->
             IF halved \/ named THEN 0 ELSE c.nSupplySinceHalving]

\* "ALPHA_H" + to_string(nHalvings) + "_E" + to_string(nEpochsAfterHalving),
\* the numbers kept as numbers.
EpochName(c, i) ==
    IF i <= Len(knownEpochs) THEN <<knownEpochs[i]>>
    ELSE <<"ALPHA_H", c.nHalvings, "_E", c.nEpochsAfterHalving>>

\* (int)floor((double)nSupplySinceHalving / ((double)nEpochMaxSupply) * 100),
\* computed exactly; a target of zero divides by zero.
SupplyTargetReached(nSupplySinceHalving, nEpochMaxSupply) ==
    IF nEpochMaxSupply = 0 THEN [fault |-> "division by zero"]
    ELSE <<(nSupplySinceHalving * 100) \div nEpochMaxSupply, "%">>

\* mining.cpp:416-448: the entry of epoch e.
EpochRow(c, e, i) ==
    LET nEpochMaxSupply == e.nMaxBlockSubsidy * (e.nEndBlock - e.nStartBlock + 1)
        nEpochRealSupply == IF e.fHasEnded THEN e.nEndSupply - e.nStartSupply
                            ELSE CountBlockRewards(e)
        nSupplySinceHalving == c.nSupplySinceHalving + nEpochRealSupply
    IN  [epoch_name |-> EpochName(c, i),
         started_by_halving |-> e.fIsSubsidyHalved,
         start_block |-> e.nStartBlock,
         end_block |-> e.nEndBlock,
         max_block_reward |-> ValueFromAmount(e.nMaxBlockSubsidy),
         dynamic_rewards_boost |->
             IF e.nDynamicRewardsBoostFactor > 0
             THEN <<"+", e.nDynamicRewardsBoostFactor, "%">>
             ELSE <<FALSE>>,
         start_supply |-> ValueFromAmount(e.nStartSupply),
         end_supply |-> IF e.fHasEnded THEN <<ValueFromAmount(e.nEndSupply)>>
                        ELSE <<FALSE>>,
         supply_target |-> ValueFromAmount(nEpochMaxSupply),
         supply_this_epoch |-> ValueFromAmount(nEpochRealSupply),
         supply_since_halving |-> ValueFromAmount(nSupplySinceHalving),
         supply_target_reached |->
             SupplyTargetReached(nSupplySinceHalving, nEpochMaxSupply)]

\* The loop of mining.cpp:398-449 from entry i on; acc holds the counters
\* and the entries so far.
RECURSIVE HalvingEpochsLoop(_, _)
HalvingEpochsLoop(i, acc) ==
    IF i > Len(halvingParams.epochs) THEN acc
    ELSE LET e == halvingParams.epochs[i]
             c == EpochCounters(acc.c, e, i)
             row == EpochRow(c, e, i)
         IN  HalvingEpochsLoop(i + 1,
                 [c |-> [c EXCEPT !.nSupplySinceHalving =
                             c.nSupplySinceHalving
                             + (IF e.fHasEnded THEN e.nEndSupply - e.nStartSupply
                                ELSE CountBlockRewards(e))],
                  childArr |-> Append(acc.childArr, row)])

\* mining.cpp:392
HalvingsOccured_Epochs == Len(halvingParams.epochs)
HalvingsOccured == halvingParams.nHalvingCount

\* gethalvinginfo: the whole answer.
gethalvinginfo ==
    LET loop == HalvingEpochsLoop(1,
                    [c |-> [nHalvings |-> 0, nEpochsAfterHalving |-> 0,
                            nSupplySinceHalving |-> 0],
                     childArr |-> <<>>])
        last == loop.childArr[Len(loop.childArr)]
    IN  /\ halvingInfo = NoHalvingInfo
        /\ halvingInfo' =
               [kind |-> "return",
                halvings_occured |-> HalvingsOccured,
                epochs_occured |-> Len(halvingParams.epochs),
                halving_interval |-> halvingParams.nHalvingInterval,
                blocks_to_next_epoch |-> EpochsBack.nEndBlock - nBestHeight,
                epoch_supply_target_reached |-> last.supply_target_reached,
                min_epoch_supply_to_halve |->
                    <<(HALVING_MIN_SUPPLY_TARGET.num * 100)
                          \div HALVING_MIN_SUPPLY_TARGET.den, "%">>,
                epochs |-> loop.childArr]
        /\ UNCHANGED <<halvingParams, nBestHeight, nMoneySupply>>
        /\ UNCHANGED notHalvingVars

\* The answer has been sent.
HalvingInfoExit ==
    /\ halvingInfo # NoHalvingInfo
    /\ halvingInfo' = NoHalvingInfo
    /\ UNCHANGED <<halvingParams, nBestHeight, nMoneySupply>>
    /\ UNCHANGED notHalvingVars

\* The schedule at the start of the ALPHA epoch: COINSWAP is block 0,
\* BOOTSTRAP block 1, and they released coinswap and bootstrap.
NamedEpochs(coinswap, bootstrap) ==
    <<[HalvingEpoch(FALSE, 0, 0, InitialMaxBlockSubsidy, 0, 0)
          EXCEPT !.fHasEnded = TRUE, !.nEndSupply = coinswap],
      [HalvingEpoch(FALSE, 1, 1, InitialMaxBlockSubsidy, 0, coinswap)
          EXCEPT !.fHasEnded = TRUE, !.nEndSupply = coinswap + bootstrap],
      HalvingEpoch(FALSE, 2, 2 + InitialHalvingInterval - 1,
                   InitialMaxBlockSubsidy, 0, coinswap + bootstrap)>>

HalvingStart(coinswap, bootstrap) ==
    /\ halvingParams = [epochs |-> NamedEpochs(coinswap, bootstrap),
                        nHalvingCount |-> 0,
                        nHalvingInterval |-> InitialHalvingInterval]
    /\ nBestHeight = 1
    /\ nMoneySupply = coinswap + bootstrap
    /\ halvingInfo = NoHalvingInfo

HalvingIdle == HalvingStart(InitialMaxBlockSubsidy, InitialMaxBlockSubsidy)

HalvingInit ==
    \E coinswap, bootstrap \in {0, InitialMaxBlockSubsidy} :
        HalvingStart(coinswap, bootstrap)

(***************************************************************************)
(* cs_main around the reads of the chain (rpc/mining.cpp).                 *)
(*                                                                         *)
(* One RPC thread runs the operations that read the tip or the block       *)
(* index, while the validation thread changes the tip under cs_main. Only  *)
(* the reads and the lock are kept: each operation makes RpcReads reads    *)
(* (submitheader one), and getblocktemplate is the call without a long     *)
(* poll. A read made while the tip is being changed is a data race: it     *)
(* sees the old height, the new height or neither.                         *)
(***************************************************************************)
\* Tip changes at most, and reads per call.
MaxRpcTip == 2
RpcReads == 2
\* What a racing read may see besides the old and the new height.
TornRead == -1

RpcOperations == {"getnetworkhashps", "getmininginfo", "gethalvinginfo",
                  "getmultialgoinfo", "getminingstats", "getblocktemplate",
                  "submitblock", "submitheader"}

\* Where the operation holds cs_main: "call" for a LOCK(cs_main) that covers
\* all its reads, "read" for a LOCK(cs_main) scope around each lookup,
\* "none" for no lock.
RpcLockScope(rpc) ==
    CASE rpc = "getnetworkhashps" -> "call"      \* mining.cpp:114
      [] rpc = "getmininginfo" -> "call"         \* mining.cpp:303
      [] rpc = "gethalvinginfo" -> "none"        \* mining.cpp:389, commented out
      [] rpc = "getmultialgoinfo" -> "none"      \* mining.cpp:485-497
      [] rpc = "getminingstats" -> "none"        \* mining.cpp:526-561
      [] rpc = "getblocktemplate" -> "call"      \* mining.cpp:748
      [] rpc = "submitblock" -> "read"           \* mining.cpp:1180, 1193
      [] rpc = "submitheader" -> "read"          \* mining.cpp:1239

RpcReadCount(rpc) == IF rpc = "submitheader" THEN 1 ELSE RpcReads

NoRpcCall == [rpc |-> "none", pc |-> "idle", reads |-> <<>>]

\* The operation starts; LOCK(cs_main) of a whole call waits for the lock.
RpcEnter(rpc) ==
    /\ rpcCall = NoRpcCall
    /\ RpcLockScope(rpc) = "call" => rpcCsMain = "none"
    /\ rpcCall' = [rpc |-> rpc, pc |-> "run", reads |-> <<>>]
    /\ rpcCsMain' = IF RpcLockScope(rpc) = "call" THEN "rpc" ELSE rpcCsMain
    /\ UNCHANGED <<rpcTip, rpcTipWriting>>
    /\ UNCHANGED notLockVars

\* One read of the tip or of the block index: chainActive.Tip(),
\* chainActive.Height(), LookupBlockIndex. seen is what the read returns.
RpcRead(seen) ==
    LET scope == RpcLockScope(rpcCall.rpc)
        held == scope \in {"call", "read"}
    IN  /\ rpcCall.pc = "run"
        /\ Len(rpcCall.reads) < RpcReadCount(rpcCall.rpc)
        /\ scope = "read" => rpcCsMain = "none"
        /\ seen \in (IF rpcTipWriting /\ ~held
                     THEN {rpcTip, rpcTip + 1, TornRead}
                     ELSE {rpcTip})
        /\ rpcCall' = [rpcCall EXCEPT
                           !.reads = Append(@, [held |-> held, seen |-> seen])]
        /\ UNCHANGED <<rpcTip, rpcTipWriting, rpcCsMain>>
        /\ UNCHANGED notLockVars

\* The operation returns and leaves the scope of its LOCK(cs_main).
RpcReturn ==
    /\ rpcCall.pc = "run"
    /\ Len(rpcCall.reads) = RpcReadCount(rpcCall.rpc)
    /\ rpcCall' = [rpcCall EXCEPT !.pc = "done"]
    /\ rpcCsMain' = IF RpcLockScope(rpcCall.rpc) = "call" THEN "none" ELSE rpcCsMain
    /\ UNCHANGED <<rpcTip, rpcTipWriting>>
    /\ UNCHANGED notLockVars

\* The answer has been sent.
RpcExit ==
    /\ rpcCall.pc = "done"
    /\ rpcCall' = NoRpcCall
    /\ UNCHANGED <<rpcTip, rpcTipWriting, rpcCsMain>>
    /\ UNCHANGED notLockVars

\* The validation thread takes cs_main and starts to change the tip.
TipWriteBegin ==
    /\ rpcCsMain = "none"
    /\ rpcTip < MaxRpcTip
    /\ rpcCsMain' = "validation"
    /\ rpcTipWriting' = TRUE
    /\ UNCHANGED <<rpcTip, rpcCall>>
    /\ UNCHANGED notLockVars

\* The tip is changed and cs_main released.
TipWriteEnd ==
    /\ rpcTipWriting
    /\ rpcTip' = rpcTip + 1
    /\ rpcTipWriting' = FALSE
    /\ rpcCsMain' = "none"
    /\ UNCHANGED rpcCall
    /\ UNCHANGED notLockVars

LockIdle ==
    /\ rpcTip = 0
    /\ rpcTipWriting = FALSE
    /\ rpcCsMain = "none"
    /\ rpcCall = NoRpcCall

(***************************************************************************)
(* getblocktemplate: the header of the cached template (rpc/mining.cpp,    *)
(* lines 909-941). When the cached template is kept or replaced is the     *)
(* subject of Spec; here the test of the cache is an input and the time    *)
(* and the nonce of the template are followed from call to call.           *)
(***************************************************************************)
\* Times are 0..MaxTmplTime and the assembler leaves a nonce 0..MaxTmplNonce.
MaxTmplTime == 3
MaxTmplNonce == 1

NoTmplBlock == [isNull |-> TRUE, nTime |-> 0, nNonce |-> 0]
NoTmplResult == [kind |-> "none"]

\* UpdateTime(pblock, consensusParams, pindexPrev): nTime becomes
\* max(median-time-past + 1, current time).
UpdateTime(block) ==
    [block EXCEPT !.nTime = Max(nMedianTimePast + 1, nAdjustedTime)]

\* mining.cpp:939-941: the time and the nonce of the template about to be
\* returned; rebuilt says whether it is a new one.
TmplRefresh_NewOnly(block, rebuilt) ==
    IF rebuilt THEN [UpdateTime(block) EXCEPT !.nNonce = 0] ELSE block
TmplRefresh(block, rebuilt) == [UpdateTime(block) EXCEPT !.nNonce = 0]

\* mining.cpp:913-941 and the answer's curtime and mintime (1060, 1076).
\*   stale    the test of line 913 on an unchanged tip
\*   created  whether CreateNewBlock returned a template
\*   nonce    the nonce CreateNewBlock leaves in a new block
TmplGet(stale, created, nonce) ==
    LET rebuild == ~tmplOnTip \/ stale
        fresh == [isNull |-> FALSE,
                  nTime |-> Max(nMedianTimePast + 1, nAdjustedTime),
                  nNonce |-> nonce]
        cached == IF rebuild THEN fresh ELSE tmplBlock
        pblock == TmplRefresh(cached, rebuild)
    IN  /\ tmplResult = NoTmplResult
        /\ ~rebuild => nonce = 0 /\ created
        /\ IF rebuild /\ ~created
             THEN /\ tmplBlock' = NoTmplBlock
                  /\ tmplOnTip' = FALSE
                  /\ tmplResult' = [kind |-> "throw", code |-> "RPC_OUT_OF_MEMORY"]
             ELSE /\ tmplBlock' = pblock
                  /\ tmplOnTip' = TRUE
                  /\ tmplResult' = [kind |-> "return",
                                    rebuilt |-> rebuild,
                                    mintime |-> nMedianTimePast + 1,
                                    curtime |-> pblock.nTime,
                                    nNonce |-> pblock.nNonce]
        /\ UNCHANGED <<nMedianTimePast, nAdjustedTime>>
        /\ UNCHANGED notTmplVars

\* The answer has been sent.
TmplExit ==
    /\ tmplResult # NoTmplResult
    /\ tmplResult' = NoTmplResult
    /\ UNCHANGED <<tmplBlock, tmplOnTip, nMedianTimePast, nAdjustedTime>>
    /\ UNCHANGED notTmplVars

\* The adjusted time changes: the clock runs, or the offset to the peers
\* changes.
TmplClock(t) ==
    /\ tmplResult = NoTmplResult
    /\ t # nAdjustedTime
    /\ nAdjustedTime' = t
    /\ UNCHANGED <<tmplBlock, tmplOnTip, nMedianTimePast, tmplResult>>
    /\ UNCHANGED notTmplVars

\* The tip changes, and the median time past with it.
TmplNewTip(mtp) ==
    /\ tmplResult = NoTmplResult
    /\ nMedianTimePast' = mtp
    /\ tmplOnTip' = FALSE
    /\ mtp # nMedianTimePast \/ tmplOnTip
    /\ UNCHANGED <<tmplBlock, nAdjustedTime, tmplResult>>
    /\ UNCHANGED notTmplVars

TmplIdle ==
    /\ tmplBlock = NoTmplBlock
    /\ tmplOnTip = FALSE
    /\ nMedianTimePast = 0
    /\ nAdjustedTime = 0
    /\ tmplResult = NoTmplResult

(***************************************************************************)
(* Specifications.                                                         *)
(***************************************************************************)
GbtInit ==
    /\ chainTip = 1
    /\ g_best_block = 1
    /\ nTransactionsUpdated = 0
    /\ fRPCRunning = TRUE
    /\ cs_main = [t \in Callers |-> 0]
    /\ pindexPrev = 0
    /\ sinceStart = SinceStartCap
    /\ pblocktemplate = NullTemplate
    /\ nTemplatePowAlgo \in GbtAlgos
    /\ nTransactionsUpdatedLast = 0
    /\ pc = [t \in Callers |-> "idle"]
    /\ nPowAlgo = [t \in Callers |-> ALGO_NULL]
    /\ hashWatchedChain = [t \in Callers |-> 0]
    /\ nTransactionsUpdatedLastLP = [t \in Callers |-> 0]
    /\ checktxtime = [t \in Callers |-> 0]
    /\ result = [t \in Callers |-> NoResult]
    /\ cacheHit = [t \in Callers |-> NoCacheTest]
    /\ lpElapsed = [t \in Callers |-> 0]
    /\ lpChecks = [t \in Callers |-> 0]
    /\ lpReason = [t \in Callers |-> "none"]

vars == <<gbtVars, powVars, genVars, genHistVars, subVars, subHistVars, reqVars,
          reqHistVars, chainVars, algoVars, halvingVars, lockVars, tmplVars>>

Init == GbtInit /\ PowIdle /\ GenIdle /\ SubIdle /\ ReqIdle /\ ChainIdle /\ AlgoIdle /\ HalvingIdle /\ LockIdle /\ TmplIdle

GbtNext ==
    \/ \E t \in Callers : GbtCall(t)
    \/ \E t \in Callers : LPLeave(t)
    \/ \E t \in Callers : LPWaitTimeout(t)
    \/ \E t \in Callers : LPWaitNotified(t)
    \/ \E t \in Callers, algo \in GbtAlgos : LPReacquire(t, algo)
    \/ \E t \in Callers : GbtUpdate(t)
    \/ \E t \in Callers, ok \in BOOLEAN : GbtCreate(t, ok)
    \/ \E t \in Callers : GbtRespond(t)
    \/ \E t \in Callers : GbtExit(t)
    \/ UpdateTip
    \/ MempoolUpdate
    \/ StopRPC
    \/ WallTick
    \/ SteadyAdvance

Next == GbtNext

Spec == Init /\ [][Next]_vars

\* One long-polling caller, the steady clock in steps of TickSeconds.
LPNext ==
    \/ GbtCall(LPCaller)
    \/ LPLeave(LPCaller)
    \/ LPWaitTimeout(LPCaller)
    \/ LPWaitNotified(LPCaller)
    \/ \E algo \in GbtAlgos : LPReacquire(LPCaller, algo)
    \/ GbtUpdate(LPCaller)
    \/ \E ok \in BOOLEAN : GbtCreate(LPCaller, ok)
    \/ GbtRespond(LPCaller)
    \/ GbtExit(LPCaller)
    \/ UpdateTip
    \/ MempoolUpdate
    \/ StopRPC
    \/ SteadyTick

NextLP == LPNext

\* The steady clock runs; a thread whose wait_until timed out runs; a thread
\* notified of a new best block runs; a thread blocked on a free cs_main gets
\* it; a running thread goes on.
LPFairness ==
    /\ WF_vars(SteadyTick)
    /\ WF_vars(LPWaitTimeout(LPCaller))
    /\ WF_vars(LPWaitNotified(LPCaller) /\ g_best_block # hashWatchedChain[LPCaller])
    /\ WF_vars(\E algo \in GbtAlgos : LPReacquire(LPCaller, algo))
    /\ WF_vars(GbtUpdate(LPCaller))
    /\ WF_vars(\E ok \in BOOLEAN : GbtCreate(LPCaller, ok))
    /\ WF_vars(GbtRespond(LPCaller))

SpecLP == Init /\ [][NextLP]_vars /\ LPFairness

\* GetPoWHash on every header of Headers.
NextPoW == ComputePoW

InitPoW == GbtInit /\ PowInit /\ GenIdle /\ SubIdle /\ ReqIdle /\ ChainIdle /\ AlgoIdle /\ HalvingIdle /\ LockIdle /\ TmplIdle

SpecPoW == InitPoW /\ [][NextPoW]_vars

\* Calls of generateBlocks, from generatetoaddress and from a caller that
\* asks for the script to be kept.
NextGen ==
    \/ \E n \in 0..MaxGenerate, tries \in GenBudgets, valid \in BOOLEAN :
           generatetoaddress(n, tries, valid)
    \/ \E n \in 0..MaxGenerate, tries \in GenBudgets :
           generateBlocks(n, tries, TRUE, "generate")
    \/ \E created \in BOOLEAN : GenLoop(created)
    \/ \E k \in GenRuns : GenScanMiss(k)
    \/ GenScanHit
    \/ GenScanEnd
    \/ \E accepted \in BOOLEAN : GenAfterScan(accepted)
    \/ GenExit
    \/ StartShutdown

SpecGen == Init /\ [][NextGen]_vars

\* A step of the thread that runs generateBlocks.
GenStep ==
    \/ \E created \in BOOLEAN : GenLoop(created)
    \/ \E k \in GenRuns : GenScanMiss(k)
    \/ GenScanHit
    \/ GenScanEnd
    \/ \E accepted \in BOOLEAN : GenAfterScan(accepted)

\* The same calls, where the thread of a running call is not stopped for
\* ever: the functions it calls return.
SpecGenFair == SpecGen /\ WF_vars(GenStep)

\* Calls of submitblock and submitheader by two callers.
NextSubmit ==
    \E c \in SubCallers :
        \/ \E bytes \in SubBytes : submitblock(c, bytes)
        \/ RegisterValidationInterface(c)
        \/ \E o \in ProcessNewBlockEffects : ProcessNewBlock(c, o)
        \/ ProcessNewBlockThrows(c)
        \/ BlockCheckedOnDestroyed(c)
        \/ UnregisterValidationInterface(c)
        \/ \E bytes \in SubBlocks \cup {"garbage"}, prevKnown \in BOOLEAN,
              state \in HeaderStates : submitheader(c, bytes, prevKnown, state)
        \/ SubExit(c)

SpecSubmit == Init /\ [][NextSubmit]_vars

\* Calls of getblocktemplate, one at a time, for every gbt_force column and
\* either value of -rpcbackcompatible.
InitRequest ==
    /\ GbtInit /\ PowIdle /\ GenIdle /\ SubIdle /\ ChainIdle /\ AlgoIdle /\ HalvingIdle /\ LockIdle /\ TmplIdle
    /\ \E force \in [DeploymentPos -> BOOLEAN], backcompatible \in BOOLEAN :
           ReqIdleWith(force, backcompatible)

NextRequest ==
    \/ \E params \in ProposalRequests, st \in IndexStatus, prevIsTip \in BOOLEAN,
          state \in TestBlockValidityStates : ReqParse(params, st, prevIsTip, state)
    \/ \E params \in Requests \ ProposalRequests :
           ReqParse(params, "absent", FALSE, ValidState)
    \/ \E connman \in BOOLEAN, connected \in BOOLEAN, ibd \in BOOLEAN,
          algoKnown \in BOOLEAN, mnSynced \in BOOLEAN :
           ReqChecks(connman, connected, ibd, algoKnown, mnSynced)
    \/ \E running \in BOOLEAN : ReqLongPoll(running)
    \/ ReqSegwitRule
    \/ \E stale \in BOOLEAN, created \in BOOLEAN : ReqUpdate(stale, created)
    \/ ReqVersionBits
    \/ ReqExit
    \/ \E states \in [DeploymentPos -> ThresholdStates] : ReqNewTip(states)

SpecRequest == InitRequest /\ [][NextRequest]_vars

\* Blocks connected to the active chain and the informational calls, one at
\* a time.
NextChain ==
    \/ \E nVersion \in ChainAlgos, nTime \in 1..MaxBlockTime :
           ConnectTip(nVersion, nTime)
    \/ \E lookup \in InfoLookups, height \in InfoHeights,
          nAlgo \in InfoAlgos \cup {ALGO_NULL} :
           getnetworkhashps(lookup, height, nAlgo)
    \/ \E nAlgo \in InfoAlgos \cup {ALGO_NULL} : getmininginfo(nAlgo)
    \/ getmultialgoinfo
    \/ InfoExit

\* The chain is read by no getblocktemplate call here: one algorithm of the
\* template cache is enough.
InitChain ==
    /\ GbtInit /\ nTemplatePowAlgo = ALGO_SCRYPT
    /\ PowIdle /\ GenIdle /\ SubIdle /\ ReqIdle /\ AlgoIdle /\ HalvingIdle /\ LockIdle /\ TmplIdle
    /\ ChainGenesis

SpecChain == InitChain /\ [][NextChain]_vars

\* GetAlgoEfficiency and GetAlgoCostFactor on every header version.
NextAlgo ==
    \/ CallGetAlgoEfficiency
    \/ CallGetAlgoCostFactor

InitAlgo ==
    /\ GbtInit /\ nTemplatePowAlgo = ALGO_SCRYPT
    /\ PowIdle /\ GenIdle /\ SubIdle /\ ReqIdle /\ ChainIdle /\ HalvingIdle /\ LockIdle /\ TmplIdle
    /\ AlgoInit

SpecAlgo == InitAlgo /\ [][NextAlgo]_vars

NextHalving ==
    \/ \E quarters \in SubsidyQuarters, boost \in DynamicRewardsBoostFactors :
           AcceptBlock(quarters, boost)
    \/ gethalvinginfo
    \/ HalvingInfoExit

InitHalving ==
    /\ GbtInit /\ nTemplatePowAlgo = ALGO_SCRYPT
    /\ PowIdle /\ GenIdle /\ SubIdle /\ ReqIdle /\ ChainIdle /\ AlgoIdle
    /\ LockIdle /\ TmplIdle
    /\ HalvingInit

SpecHalving == InitHalving /\ [][NextHalving]_vars

NextLock ==
    \/ \E rpc \in RpcOperations : RpcEnter(rpc)
    \/ \E seen \in (0..MaxRpcTip) \cup {TornRead} : RpcRead(seen)
    \/ RpcReturn
    \/ RpcExit
    \/ TipWriteBegin
    \/ TipWriteEnd

InitLock ==
    /\ GbtInit /\ nTemplatePowAlgo = ALGO_SCRYPT
    /\ PowIdle /\ GenIdle /\ SubIdle /\ ReqIdle /\ ChainIdle /\ AlgoIdle
    /\ HalvingIdle /\ LockIdle /\ TmplIdle

SpecLock == InitLock /\ [][NextLock]_vars

NextTmpl ==
    \/ \E stale \in BOOLEAN, created \in BOOLEAN, nonce \in 0..MaxTmplNonce :
           TmplGet(stale, created, nonce)
    \/ TmplExit
    \/ \E t \in 0..MaxTmplTime : TmplClock(t)
    \/ \E mtp \in 0..MaxTmplTime : TmplNewTip(mtp)

InitTmpl ==
    /\ GbtInit /\ nTemplatePowAlgo = ALGO_SCRYPT
    /\ PowIdle /\ GenIdle /\ SubIdle /\ ReqIdle /\ ChainIdle /\ AlgoIdle
    /\ HalvingIdle /\ LockIdle /\ TmplIdle

SpecTmpl == InitTmpl /\ [][NextTmpl]_vars

(***************************************************************************)
(* Properties of the template cache (Spec).                                *)
(***************************************************************************)
\* The cached template may be reused for the request of caller t, with the
\* age bound lim on a changed mempool revision.
CacheUsableWithin(t, lim) ==
    /\ pindexPrev = chainTip
    /\ nPowAlgo[t] = nTemplatePowAlgo
    /\ (nTransactionsUpdated = nTransactionsUpdatedLast \/ lim)

\* The step of caller t from the cache test reuses the cache (goes on to the
\* reply, the cache untouched, CreateNewBlock not called) exactly when usable
\* holds, and otherwise clears the cache and goes on to CreateNewBlock.
CacheTestDecides(t, usable) ==
    (pc[t] = "update" /\ pc'[t] # "update") =>
        /\ (pc'[t] = "respond" /\ UNCHANGED cacheVars) <=> usable
        /\ pc'[t] = "create" <=> ~usable

\* C1 as amended: the cached template is reused without calling the block
\* assembler if and only if the tip is the tip the template was built on, the
\* requested algorithm is the template's, and either the mempool revision is
\* the one recorded at creation or GetTime() - nStart is at most 5 seconds;
\* otherwise it is rebuilt. At exactly 5 seconds with a changed revision the
\* template is reused.
C1_ReuseIffUsableUpTo5s ==
    [][\A t \in Callers :
          CacheTestDecides(t, CacheUsableWithin(t, sinceStart <= TemplateMaxAge))]_vars

\* C1 as stated: reuse if and only if tip and algorithm match and either the
\* revision is unchanged or fewer than 5 seconds have elapsed; at exactly 5
\* seconds with a changed revision the template is rebuilt.
C1_ReuseIffFewerThan5s ==
    [][\A t \in Callers :
          CacheTestDecides(t, CacheUsableWithin(t, sinceStart < TemplateMaxAge))]_vars

\* A call reused the template when its cache test read an age of exactly 5
\* seconds and a changed mempool revision.
C1_ReusedAtFiveSeconds ==
    \E t \in Callers :
        /\ pc[t] = "respond"
        /\ cacheHit[t] = [outcome |-> "hit", revChanged |-> TRUE,
                          age |-> TemplateMaxAge]

\* C2: every template a call returns is built on the tip that is current when
\* the call returns: previousblockhash is the current tip (and the longpollid
\* names it), also for the first call after a tip change and for a call that
\* was long-polling while the tip changed.
C2_TemplateOnCurrentTip ==
    \A t \in Callers :
        (pc[t] = "return" /\ result[t].kind = "template") =>
            /\ result[t].previousblockhash = chainTip
            /\ result[t].longpollTip = chainTip

\* A call that waited in the long poll until the tip changed returns a
\* template on the new tip.
C2_LongPollerReturnsNewTip ==
    \E t \in Callers :
        /\ pc[t] = "return"
        /\ result[t].kind = "template"
        /\ lpReason[t] = "tip"
        /\ lpElapsed[t] > 0
        /\ result[t].previousblockhash = chainTip
        /\ chainTip > 1

\* C3: when CreateNewBlock fails during a rebuild the call fails with
\* RPC_OUT_OF_MEMORY and the cache is left cleared (pindexPrev null, no
\* template); whenever there is no template pindexPrev is null, so the next
\* call rebuilds whatever the tip, algorithm and revision are; a call gets to
\* the reply only with a template built on the current tip, and no call
\* trips the assert or dereferences a null template.
C3_FailedRebuildLeavesCacheCleared ==
    /\ pblocktemplate.isNull => pindexPrev = 0
    /\ \A t \in Callers :
          /\ (pc[t] = "return" /\ result[t].code = "RPC_OUT_OF_MEMORY") =>
                 (pindexPrev = 0 /\ pblocktemplate.isNull)
          /\ pc[t] = "respond" =>
                 (~pblocktemplate.isNull /\ pindexPrev = chainTip
                    /\ pblocktemplate.hashPrevBlock = chainTip)
          /\ result[t].kind \in {"none", "error", "template"}

\* A rebuild failed: the call is about to throw RPC_OUT_OF_MEMORY, the cache
\* cleared, while the cache's tip, algorithm and revision entries are those of
\* the failed attempt and another call is about to take cs_main.
C3_RebuildFailed ==
    \E t, u \in Callers :
        /\ pc[t] = "return"
        /\ result[t].code = "RPC_OUT_OF_MEMORY"
        /\ cacheHit[t].outcome = "miss"
        /\ pindexPrev = 0
        /\ nTemplatePowAlgo = nPowAlgo[t]
        /\ nTransactionsUpdatedLast = nTransactionsUpdated
        /\ pc[u] = "lp_exit"

(***************************************************************************)
(* Properties of cs_main (Spec).                                           *)
(***************************************************************************)
\* Positions at which a call is between taking and releasing cs_main.
LockedPcs == {"lp_leave", "update", "create", "respond", "return"}
\* Positions at which a call tests, rebuilds or reads the cache.
CachePcs == {"update", "create", "respond"}

\* C4: at most one call at a time is checking or rebuilding the template
\* cache, long-pollers that re-acquire cs_main included: two rebuilds never
\* overlap and no call reads the cache while another is between clearing it
\* and storing the new template.
C4_OneCallAtTheCache ==
    \A t, u \in Callers :
        t # u =>
            /\ ~(pc[t] \in CachePcs /\ pc[u] \in CachePcs)
            /\ ~(cs_main[t] > 0 /\ cs_main[u] > 0)

\* One call is between clearing the cache and storing the template while
\* another, back from its long poll, waits for cs_main.
C4_RebuildWhilePollerWaitsForLock ==
    \E t, u \in Callers :
        /\ pc[t] = "create"
        /\ pindexPrev = 0
        /\ pc[u] = "lp_exit"

\* C5: a long-polling call does not hold cs_main while it waits on the
\* condition variable, holds it again (once) on every path out of the wait,
\* and so releases it exactly once when it exits, with a template or an error.
C5_LockDiscipline ==
    \A t \in Callers :
        /\ pc[t] \in {"lp_wait", "lp_exit", "idle"} => cs_main[t] = 0
        /\ pc[t] \in LockedPcs => cs_main[t] = 1

\* A call is about to exit with the shutdown error of the long poll, holding
\* cs_main.
C5_ShutdownErrorHoldsLock ==
    \E t \in Callers :
        /\ pc[t] = "return"
        /\ result[t] = JSONRPCError("RPC_CLIENT_NOT_CONNECTED", "Shutting down")
        /\ lpElapsed[t] > 0
        /\ cs_main[t] = 1

(***************************************************************************)
(* Properties of the long poll (SpecLP).                                   *)
(***************************************************************************)
ShuttingDown == JSONRPCError("RPC_CLIENT_NOT_CONNECTED", "Shutting down")

\* The call is in the long poll: waiting, or back from the wait and not yet
\* holding cs_main again.
InLongPoll(t) == pc[t] \in {"lp_wait", "lp_exit"}

\* C6: if shutdown is requested while a call is long-polling, the call
\* eventually leaves the wait and fails with RPC_CLIENT_NOT_CONNECTED
\* ("Shutting down"); once it has seen the shutdown it goes nowhere but to
\* that error, so it never returns a template, and it does not wait forever.
C6_ShutdownEndsLongPoll ==
    /\ (InLongPoll(LPCaller) /\ ~fRPCRunning) ~>
           (pc[LPCaller] = "return" /\ result[LPCaller] = ShuttingDown)
    /\ [](lpReason[LPCaller] = "shutdown" =>
             /\ pc[LPCaller] \in {"lp_exit", "return"}
             /\ pc[LPCaller] = "return" => result[LPCaller] = ShuttingDown)
    /\ [][(pc[LPCaller] = "lp_exit" /\ pc'[LPCaller] # "lp_exit" /\ ~fRPCRunning) =>
             (pc'[LPCaller] = "return" /\ result'[LPCaller] = ShuttingDown)]_vars

\* A call that waited, and left the wait because of the shutdown, is about to
\* fail with the shutdown error.
C6_PollerFailsOnShutdown ==
    /\ pc[LPCaller] = "return"
    /\ result[LPCaller] = ShuttingDown
    /\ lpReason[LPCaller] = "shutdown"
    /\ lpElapsed[LPCaller] > 0

\* The call waits and nothing it watches has changed.
WaitingUnchanged(t) ==
    /\ Waiting(t)
    /\ g_best_block = hashWatchedChain[t]
    /\ nTransactionsUpdated = nTransactionsUpdatedLastLP[t]

\* A deadline for C7 as stated: the first mempool check, one further check
\* period, and the greatest lateness of the thread.
LongPollDeadline == CheckTxFirst + CheckTxNext + MaxLate

\* C7 as amended: a long-poll call whose longpollid names the current tip and
\* the current mempool revision has no deadline: it keeps waiting as long as
\* the best block and the mempool revision are unchanged and the RPC server
\* runs; once the best block changes it leaves the wait and returns, and once
\* the mempool revision changes it leaves the wait at its next mempool check
\* (one minute after the wait began, then every 10 seconds) and returns.
\* (The revision counter only grows: once past the watched revision it stays
\* different from it.)
C7_WaitsUntilChange ==
    /\ [][\A t \in Callers :
             (WaitingUnchanged(t) /\ fRPCRunning) => Waiting(t)']_vars
    /\ (Waiting(LPCaller) /\ g_best_block # hashWatchedChain[LPCaller]) ~>
           pc[LPCaller] = "return"
    /\ (Waiting(LPCaller) /\ nTransactionsUpdated > nTransactionsUpdatedLastLP[LPCaller]) ~>
           pc[LPCaller] = "return"

\* C7 as stated: when neither the tip nor the mempool revision changes the
\* call returns within a bounded time: it is not found waiting, with nothing
\* changed, after LongPollDeadline seconds.
C7_ReturnsWithinDeadline ==
    \A t \in Callers :
        WaitingUnchanged(t) => lpElapsed[t] <= LongPollDeadline

\* The call still waits after two mempool checks that found nothing changed.
C7_StillWaitingAfterChecks ==
    /\ WaitingUnchanged(LPCaller)
    /\ fRPCRunning
    /\ lpChecks[LPCaller] = 2
    /\ lpElapsed[LPCaller] > CheckTxFirst + CheckTxNext

\* lpElapsed and lpChecks of caller t are exact (below their caps).
LPTracked(t) == lpElapsed[t] < ElapsedCap /\ lpChecks[t] < ChecksCap

\* C8: while long-polling with an unchanged best block the mempool revision
\* is compared first one minute after the wait began and then every 10
\* seconds: the next check is due at 60 + 10 * (checks made) seconds, check
\* number k is not made before 60 + 10 * (k - 1) seconds, and nothing but a
\* check moves the next check time (a wake-up that is not a timeout makes no
\* check and leaves checktxtime alone); the wait ends at the first check at
\* which the revisions differ, and a mempool change ends it only at a check.
C8_MempoolCheckCadence ==
    /\ [](\A t \in Callers :
            /\ (Waiting(t) /\ LPTracked(t)) =>
                   checktxtime[t] =
                       CheckTxFirst + CheckTxNext * lpChecks[t] - lpElapsed[t]
            /\ (InLongPoll(t) /\ LPTracked(t) /\ lpChecks[t] >= 1) =>
                   lpElapsed[t] >= CheckTxFirst + CheckTxNext * (lpChecks[t] - 1)
            /\ lpReason[t] = "mempool" =>
                   (lpChecks[t] >= 1 /\ lpElapsed[t] >= CheckTxFirst))
    /\ [][\A t \in Callers :
            /\ (Waiting(t) /\ lpChecks'[t] # lpChecks[t]
                  /\ nTransactionsUpdated # nTransactionsUpdatedLastLP[t]) =>
                   (pc'[t] = "lp_exit" /\ lpReason'[t] = "mempool")
            /\ (Waiting(t) /\ Waiting(t)' /\ lpChecks'[t] = lpChecks[t]
                  /\ lpElapsed'[t] = lpElapsed[t] /\ lpElapsed[t] < ElapsedCap) =>
                   checktxtime'[t] = checktxtime[t]
            /\ (Waiting(t) /\ ~Waiting(t)' /\ g_best_block = hashWatchedChain[t]
                  /\ fRPCRunning) =>
                   \/ (lpReason'[t] = "mempool" /\ lpChecks[t] < lpChecks'[t])
                   \/ lpChecks[t] = ChecksCap]_vars

\* The wait ended at the second check, 70 seconds after it began, because the
\* mempool revision differed.
C8_EndedAtSecondCheck ==
    /\ pc[LPCaller] = "lp_exit"
    /\ lpReason[LPCaller] = "mempool"
    /\ lpChecks[LPCaller] = 2
    /\ lpElapsed[LPCaller] = CheckTxFirst + CheckTxNext

(***************************************************************************)
(* Properties of GetPoWHash (SpecPoW).                                     *)
(***************************************************************************)
\* C9: for every header whose version top bits are not the versionbits
\* pattern GetPoWHash returns the scrypt hash of the header, whatever the
\* algorithm field of the version holds.
C9_ScryptFallback ==
    (powDone /\ powHeader.nVersion.top # VERSIONBITS_TOP_BITS) =>
        powHash = [fn |-> "scrypt_1024_1_1_256",
                   input |-> <<powHeader.nVersion, powHeader.hashPrevBlock,
                               powHeader.nNonce>>,
                   seed |-> <<>>]

\* GetPoWHash has returned for a header without the versionbits pattern whose
\* algorithm field names X16R.
C9_FallbackOnX16RField ==
    /\ powDone
    /\ powHeader.nVersion.top # VERSIONBITS_TOP_BITS
    /\ powHeader.nVersion.algo = ALGO_X16R
    /\ powHash.fn = "scrypt_1024_1_1_256"

\* The hash function of each algorithm identifier.
AlgoHashFunction ==
    [a \in Algos |->
        CASE a = ALGO_SHA256D -> "SerializeHash"
          [] a = ALGO_SCRYPT  -> "scrypt_1024_1_1_256"
          [] a = ALGO_NIST5   -> "NIST5"
          [] a = ALGO_LYRA2Z  -> "lyra2z_hash"
          [] a = ALGO_X11     -> "HashX11"
          [] a = ALGO_X16R    -> "HashX16R"]

\* C10: for every header whose version top bits are the versionbits pattern
\* and whose algorithm field is one of the six identifiers, GetPoWHash
\* applies the hash function of that identifier to the header, and only X16R
\* takes hashPrevBlock as a seed.
C10_DispatchByAlgorithm ==
    (powDone /\ powHeader.nVersion.top = VERSIONBITS_TOP_BITS
       /\ powHeader.nVersion.algo \in Algos) =>
        /\ powHash.fn = AlgoHashFunction[powHeader.nVersion.algo]
        /\ powHash.input = <<powHeader.nVersion, powHeader.hashPrevBlock,
                             powHeader.nNonce>>
        /\ powHash.seed = IF powHeader.nVersion.algo = ALGO_X16R
                            THEN <<powHeader.hashPrevBlock>>
                            ELSE <<>>

\* GetPoWHash has returned the X16R hash, seeded with hashPrevBlock, of a
\* versionbits header.
C10_X16RSeeded ==
    /\ powDone
    /\ powHeader.nVersion.top = VERSIONBITS_TOP_BITS
    /\ powHeader.nVersion.algo = ALGO_X16R
    /\ powHash.fn = "HashX16R"
    /\ powHash.seed = <<powHeader.hashPrevBlock>>
    /\ powHeader.hashPrevBlock = MaxPowHash

\* C11: when a header has the versionbits top-bit pattern but its algorithm
\* field is none of the six identifiers, GetPoWHash fails with
\* UnknownAlgorithm and does not return a hash value: there is no state in
\* which GetPoWHash has returned for such a header.
C11_UnknownAlgorithmFails ==
    ~(/\ powDone
      /\ powHeader.nVersion.top = VERSIONBITS_TOP_BITS
      /\ powHeader.nVersion.algo \notin Algos)

\* GetPoWHash has returned the initial value ff..ff of powHash for a
\* versionbits header whose algorithm field is no identifier.
C11_ReturnsInitialValue ==
    /\ powDone
    /\ powHeader.nVersion.top = VERSIONBITS_TOP_BITS
    /\ powHeader.nVersion.algo \notin Algos
    /\ powHash = [fn |-> "ffff", input |-> <<>>, seed |-> <<>>]


\* Whether the scan has just ended on a nonce that meets the target and the
\* block is not yet submitted.
GenHitPending == IF genPc = "scanned" /\ genPowOk THEN 1 ELSE 0

\* C12 (as first stated): over the whole call the number of nonces tried never
\* exceeds the try budget the call started with.
C12_TriedWithinBudget == genTried <= genBudget

\* C12: generateBlocks scans nonces from 0 up to 0x10000 for each template and
\* decrements the try budget once per nonce that misses the target; the nonce
\* that meets the target is not counted. The nonces that missed never exceed
\* the budget the call started with, the nonces tried are those plus one for
\* each block that met the target, and once the budget is 0 after a scan no
\* further template is assembled and the call returns the hashes found so far
\* without an error.
C12_BudgetCountsMisses ==
    /\ nNonce \in 0..nInnerLoopCount
    /\ nMaxTries \in 0..genBudget
    /\ genFailed = genBudget - nMaxTries
    /\ genTried = genFailed + genSubmitted + GenHitPending
    /\ genPc \in {"loop", "scan"} /\ genTemplates > 0 => nMaxTries > 0 \/ genPc = "scan"
    /\ genPc = "done" /\ genTemplates > 0 /\ nMaxTries = 0
           => genResult = GenHashes(blockHashes)

\* C12 witness: a call has used up its budget after a block was found, and has
\* tried more nonces than the budget it started with.
C12_BudgetUsedUpAfterBlock ==
    /\ genPc = "done"
    /\ genBudget > 0
    /\ nMaxTries = 0
    /\ blockHashes >= 1
    /\ genTried > genBudget
    /\ genResult = GenHashes(blockHashes)

\* C13: a block is submitted to ProcessNewBlock only when its hash met the
\* target; when ProcessNewBlock rejects it the call throws RPC_INTERNAL_ERROR,
\* the hash is not added to blockHashes, and no further template is created.
C13_SubmitOnlyOnTarget ==
    [][/\ genSubmitted' > genSubmitted
           => /\ genPc = "scanned"
              /\ genPowOk
              /\ genAccepted' = genAccepted
                    => /\ genPc' = "done"
                       /\ genResult' = GenThrow("RPC_INTERNAL_ERROR",
                                                "ProcessNewBlock, block not accepted")
                       /\ blockHashes' = blockHashes
       /\ genPc = "done" => genPc' \in {"done", "idle"} /\ genTemplates' = genTemplates
       /\ blockHashes' # blockHashes /\ genPc # "idle"
           => /\ blockHashes' = blockHashes + 1
              /\ genAccepted' = genAccepted + 1]_vars

\* C13 witness: the second block of a call met the target and was rejected.
C13_RejectedAfterOneBlock ==
    /\ genPc = "done"
    /\ genResult = GenThrow("RPC_INTERNAL_ERROR", "ProcessNewBlock, block not accepted")
    /\ genPowOk
    /\ genSubmitted = 2
    /\ blockHashes = 1

\* C14: the coinbase script is marked kept exactly when the caller asked for
\* it and at least one block was accepted during the call; it is not marked
\* kept when the call returns no hashes, nor in a call from generatetoaddress.
C14_KeptIffAskedAndAccepted ==
    /\ scriptKept <=> (keepScript /\ genAccepted >= 1)
    /\ genResult = GenHashes(0) => ~scriptKept
    /\ genCaller = "generatetoaddress" => ~keepScript /\ ~scriptKept

\* C14 witness: a call that asked for the script to be kept returns one hash
\* and the script is kept.
C14_KeptAfterBlock ==
    /\ genPc = "done"
    /\ genResult = GenHashes(1)
    /\ genCaller = "generate"
    /\ keepScript
    /\ scriptKept

\* Caller c is at the step that ends a submitblock call after ProcessNewBlock
\* has returned.
SubReturns(c) ==
    /\ subCall[c] = "submitblock"
    /\ subPc[c] = "processed"
    /\ subPc'[c] = "done"

\* C15: a submitblock call for a block that an earlier submitblock call has
\* returned null for returns "duplicate": by the lookup in the index when the
\* call begins after the null return, and by ProcessNewBlock reporting an
\* accepted block that is not new when the block was connected by the time
\* ProcessNewBlock ran.
C15_SecondSubmissionDuplicate ==
    /\ [](\A b \in subNulls : blockIndex[b] = "valid")
    /\ [](\A c \in SubCallers :
              subCall[c] = "submitblock" /\ subPc[c] = "done" /\ subAfterNull[c]
                  => subResult[c] = SubValue("duplicate"))
    /\ [][\A c \in SubCallers :
              SubReturns(c) /\ subOnConnected[c]
                  => subResult'[c] = SubValue("duplicate")]_vars

\* C15 witness: a call that began after a null return for its block has
\* returned "duplicate".
C15_DuplicateAfterNull ==
    \E c \in SubCallers :
        /\ subCall[c] = "submitblock"
        /\ subPc[c] = "done"
        /\ subAfterNull[c]
        /\ subHash[c] \in subNulls
        /\ subResult[c] = SubValue("duplicate")

\* The strings submitblock returns as JSON values.
SubmitBlockValues ==
    {"null", "duplicate", "duplicate-invalid", "inconclusive", "rejected"}
        \cup (RejectReasons \ {""})

\* C16 (as first stated): no call of submitblock throws RPC_VERIFY_ERROR.
C16_SubmitBlockNeverVerifyError ==
    \A c \in SubCallers :
        subCall[c] = "submitblock"
            => ~(subResult[c].kind = "error" /\ subResult[c].code = "RPC_VERIFY_ERROR")

\* C16: submitblock returns the outcome of the validation of a decoded block
\* as a JSON value (null, duplicate, duplicate-invalid, inconclusive or a
\* rejection reason), except when the caught state is an error state: then it
\* throws RPC_VERIFY_ERROR. submitheader returns null or throws; a header that
\* fails validation throws RPC_VERIFY_ERROR.
C16_VerifyErrorOnlyForErrorState ==
    /\ [](\A c \in SubCallers :
              /\ subResult[c].kind = "value" /\ subCall[c] = "submitblock"
                    => subResult[c].message \in SubmitBlockValues
              /\ subResult[c].kind = "value" /\ subCall[c] = "submitheader"
                    => subResult[c].message = "null"
              /\ subResult[c].kind = "error"
                    => subResult[c].code \in
                           {"RPC_DESERIALIZATION_ERROR", "RPC_VERIFY_ERROR", "exception"}
              /\ subResult[c].code = "RPC_VERIFY_ERROR" /\ subCall[c] = "submitheader"
                    => subResult[c].message \in
                           {"Must submit previous header first",
                            FormatStateMessage(ErrorState)} \cup RejectReasons)
    /\ [][\A c \in SubCallers :
              SubReturns(c)
                  => /\ subResult'[c].kind = "error"
                           <=> /\ ~(~subNewBlock[c] /\ subAccepted[c])
                               /\ sc[c].found
                               /\ IsError(sc[c].state)
                     /\ subResult'[c].kind = "error"
                           => subResult'[c] = SubThrow("RPC_VERIFY_ERROR",
                                                       FormatStateMessage(sc[c].state))]_vars

\* C16 witness: a submitblock call has thrown RPC_VERIFY_ERROR for an error
\* state.
C16_SubmitBlockThrewVerifyError ==
    \E c \in SubCallers :
        /\ subCall[c] = "submitblock"
        /\ subPc[c] = "done"
        /\ subResult[c] = SubThrow("RPC_VERIFY_ERROR", FormatStateMessage(ErrorState))

\* C17 (as stated): a catcher is registered only while its call is between
\* the registration and the return of ProcessNewBlock; no catcher of a
\* finished call is registered.
C17_ObserverScoped ==
    /\ ~subDangling
    /\ \A c \in validationInterfaces : subPc[c] \in {"registered", "processed"}

\* C17 witness: ProcessNewBlock has thrown and the destroyed catcher of the
\* finished call is registered.
C17_DestroyedCatcherRegistered ==
    /\ subDangling
    /\ \E c \in SubCallers :
           /\ subCall[c] = "submitblock"
           /\ subPc[c] = "done"
           /\ subResult[c] = SubException

\* The call is a proposal whose data decoded to a block.
ProposalLookedUp ==
    reqPc = "done" /\ strMode = "proposal" /\ reqProposal # NoProposal

SegwitRuleError ==
    ReqThrow("RPC_INVALID_PARAMETER",
             "getblocktemplate must be called with the segwit rule set (call with {\"rules\": [\"segwit\"]})")

\* The template request names no segwit rule.
SegwitMissing == "segwit" \notin ParsedRequest(reqParams).setClientRules

\* C19: a template-mode request whose rules lack "segwit" fails at the test
\* of the rule with RPC_INVALID_PARAMETER when -rpcbackcompatible is false,
\* and the call neither replaces the cached template nor returns one; when
\* -rpcbackcompatible is true "segwit" is inserted into the client rules, and
\* a call with no template request goes on with the mode, long-poll id,
\* client rules and maxversion of a call with {"rules": ["segwit"]}.
C19_SegwitRuleRequired ==
    /\ [](/\ reqResult = SegwitRuleError
               => reqPc = "done" /\ ~rpcbackcompatible /\ SegwitMissing /\ ~reqUpdated
          /\ reqPc # "idle" /\ ~rpcbackcompatible /\ SegwitMissing
               => /\ reqPc \notin {"update", "versionbits"}
                  /\ reqResult.kind # "template"
                  /\ ~reqUpdated
          /\ reqPc \in {"update", "versionbits"} \/ reqResult.kind = "template"
               => /\ "segwit" \in setClientRules
                  /\ setClientRules =
                         ParsedRequest(reqParams).setClientRules
                             \cup (IF rpcbackcompatible THEN {"segwit"} ELSE {})
          /\ reqPc \in {"update", "versionbits"} /\ reqParams.isNull /\ rpcbackcompatible
               => /\ <<strMode, lpval, setClientRules, nMaxVersionPreVB>>
                         = <<"template", FALSE, {"segwit"}, NoMaxVersion>>
                  /\ ParsedRequest(SegwitRequest)
                         = [strMode |-> strMode, lpval |-> lpval,
                            setClientRules |-> setClientRules,
                            nMaxVersionPreVB |-> nMaxVersionPreVB])
    /\ [][reqPc = "segwit" /\ reqPc' # "segwit" /\ ~rpcbackcompatible /\ SegwitMissing
             => reqResult' = SegwitRuleError /\ UNCHANGED <<templateOnTip, nVersionBits>>]_vars

\* C19 witness: a call without the segwit rule has failed while a cached
\* template on the tip was there to be served.
C19_FailedWithoutSegwit ==
    /\ reqPc = "done"
    /\ reqResult = SegwitRuleError
    /\ ~rpcbackcompatible
    /\ templateOnTip
    /\ ~reqParams.isNull

\* Some deployment is ACTIVE, not forced, and not among the client rules.
VBRequiredMissing ==
    \E pos \in DeploymentPos :
        /\ versionBitsState[pos] = "ACTIVE"
        /\ ~gbt_force[pos]
        /\ VBDeployments[pos] \notin setClientRules

\* r is the error of line 1034.
IsUnsupportedRule(r) == \E pos \in DeploymentPos : r = UnsupportedRule(VBDeployments[pos])

\* C20: a getblocktemplate call that reaches the loop over the deployments
\* fails with the unsupported-rule error exactly when some deployment is
\* ACTIVE, not forced, and absent from the client rules; no other place
\* raises that error, so a forced ACTIVE deployment and an unsupported
\* STARTED or LOCKED_IN deployment never make the call fail.
C20_UnsupportedRuleIffRequired ==
    [][/\ reqPc = "versionbits" /\ reqPc' = "done"
           => (IsUnsupportedRule(reqResult') <=> VBRequiredMissing)
       /\ reqPc = "versionbits" /\ reqPc' = "done" /\ ~VBRequiredMissing
           => reqResult'.kind = "template"
       /\ IsUnsupportedRule(reqResult') /\ ~IsUnsupportedRule(reqResult)
           => reqPc = "versionbits"]_vars

\* C20 witness: the call failed on csv, ACTIVE and not forced, which the
\* client rules lack.
C20_FailedOnActiveRule ==
    /\ reqPc = "done"
    /\ reqResult = UnsupportedRule("csv")
    /\ versionBitsState[1] = "ACTIVE"
    /\ ~gbt_force[1]
    /\ "csv" \notin setClientRules

(***************************************************************************)
(* Properties of the hash-rate estimate and of the per-algorithm           *)
(* difficulty (SpecChain).                                                 *)
(***************************************************************************)
\* The results of GetNetworkHashPS in the last call, each with the
\* algorithm it was asked for.
InfoHps ==
    IF infoCall.kind \in {"none", "throw"} \/ ~("fn" \in DOMAIN infoCall) THEN {}
    ELSE IF infoCall.fn = "getnetworkhashps"
    THEN {[nAlgo |-> infoCall.nAlgo, hps |-> infoCall.hps]}
    ELSE IF infoCall.fn = "getmininginfo" /\ infoCall.kind = "return"
    THEN {[nAlgo |-> infoCall.nAlgo, hps |-> infoCall.networkhashps]}
    ELSE IF infoCall.fn = "getmultialgoinfo" /\ infoCall.kind = "return"
    THEN {[nAlgo |-> infoCall.arr[i].algo, hps |-> infoCall.arr[i].hashrate] :
              i \in DOMAIN infoCall.arr}
    ELSE {}

\* The block times of the window: of the entry at height pb and of the
\* lookup entries below it.
WindowTimes(pb, lookup) ==
    {chainActive[h + 1].nTime : h \in (pb - lookup)..pb}

\* The estimate divided a work by a time.
HpsDivided(r) == r.hps.kind = "return" /\ r.hps.pbAlgo # -1

\* C21: GetNetworkHashPS returns 0 whenever the block times of the window
\* are all equal, and otherwise a value that is not negative, whatever the
\* chain, the window, the height and the algorithm: the quotient of a work
\* that is not negative and a time that is positive.
C21_ZeroOrNotNegative ==
    \A r \in InfoHps :
        /\ r.hps.kind = "return"
        /\ r.hps.value.num >= 0
        /\ r.hps.value.den > 0
        /\ (r.hps.pb > 0 /\ Cardinality(WindowTimes(r.hps.pb, r.hps.lookup)) = 1)
               => r.hps.value = HpsZero

\* An estimate for an algorithm with no block at or below the start of the
\* window, where the work subtracted is the larger one.
C21_WorkWrapped ==
    \E r \in InfoHps :
        /\ HpsDivided(r)
        /\ \A h \in 0..r.hps.pb0 : chainActive[h + 1].nVersion # r.nAlgo
        /\ chainActive[r.hps.pbAlgo + 1].nChainWorkAlgo
               < chainActive[r.hps.pb0Algo + 1].nChainWorkAlgo
        /\ r.hps.value.num > 0


\* work_for_algo(entry, algo): the work of the blocks of the algorithm at
\* or below a height.
WorkForAlgo(height, nAlgo) == ChainWorkAlgoBefore(ChainAt(height), nAlgo)

SetMax(S) == CHOOSE x \in S : \A y \in S : y <= x
SetMin(S) == CHOOSE x \in S : \A y \in S : x <= y

\* C22: when the times of the window differ, GetNetworkHashPS returns the
\* work of the algorithm at the newest entry of the window minus the work
\* of the algorithm at the entry below the window, divided by
\* maxTime - minTime; the difference of the global chain work has no part
\* in the result.
C22_PerAlgoWorkDelta ==
    \A r \in InfoHps :
        HpsDivided(r) =>
            LET times == WindowTimes(r.hps.pb, r.hps.lookup) IN
            r.hps.value =
                HpsQuotient(WorkForAlgo(r.hps.pb, r.nAlgo)
                                - WorkForAlgo(r.hps.pb0, r.nAlgo),
                            SetMax(times) - SetMin(times))

\* The first block of the algorithm is inside the window and the genesis
\* entry was mined by another algorithm: the work subtracted is the
\* genesis entry's work of that other algorithm.
C22_GenesisWorkSubtracted ==
    \E r \in InfoHps :
        /\ HpsDivided(r)
        /\ r.hps.pb0Algo = 0
        /\ chainActive[1].nVersion # r.nAlgo
        /\ chainActive[r.hps.pbAlgo + 1].nVersion = r.nAlgo
        /\ r.hps.value.num # WorkForAlgo(r.hps.pb, r.nAlgo)


\* C23: GetNetworkHashPS starts from the entry at the given height when
\* 0 <= height < tip height and from the tip otherwise, and returns 0
\* without a step of the walk when that entry is null or has height 0.
C23_StartingEntry ==
    (infoCall.kind # "none" /\ infoCall.fn = "getnetworkhashps") =>
        /\ infoCall.hps.kind = "return"
        /\ infoCall.hps.pb =
               IF 0 <= infoCall.height /\ infoCall.height < ChainHeight
               THEN infoCall.height
               ELSE ChainHeight
        /\ infoCall.hps.pb \in {-1, 0} =>
               /\ infoCall.hps.value = HpsZero
               /\ infoCall.hps.walked = 0

\* The estimate at height 0 of a chain with blocks above the genesis entry.
C23_ZeroAtGenesis ==
    /\ infoCall.kind = "return" /\ infoCall.fn = "getnetworkhashps"
    /\ infoCall.height = 0 /\ ChainHeight > 0
    /\ infoCall.hps.pb = 0
    /\ infoCall.hps.value = HpsZero
    /\ infoCall.hps.walked = 0


\* C24: a lookup that is not positive is replaced by
\* (entry height mod difficulty interval) + 1 and a lookup above the entry
\* height by the entry height, so the walk takes between 1 and entry-height
\* steps and never reads the predecessor of the genesis entry.
C24_WindowWithinChain ==
    (infoCall.kind # "none" /\ infoCall.fn = "getnetworkhashps") =>
        /\ infoCall.kind # "crash"
        /\ infoCall.hps.pb > 0 =>
               LET height == infoCall.hps.pb
                   wanted == IF infoCall.lookup <= 0
                             THEN (height % DifficultyAdjustmentInterval) + 1
                             ELSE infoCall.lookup
               IN  /\ infoCall.hps.lookup = Min(wanted, height)
                   /\ infoCall.hps.walked = infoCall.hps.lookup
                   /\ 1 <= infoCall.hps.walked /\ infoCall.hps.walked <= height
                   /\ infoCall.hps.pb0 = height - infoCall.hps.walked
                   /\ infoCall.hps.pb0 >= 0

\* A lookup above the height of the entry: the walk ends at the genesis
\* entry.
C24_ClampedToHeight ==
    /\ infoCall.kind = "return" /\ infoCall.fn = "getnetworkhashps"
    /\ infoCall.hps.pb >= 2
    /\ infoCall.lookup > infoCall.hps.pb
    /\ infoCall.hps.walked = infoCall.hps.pb
    /\ infoCall.hps.pb0 = 0


\* The heights of the blocks of an algorithm on the active chain.
HeightsOfAlgo(nAlgo) ==
    {h \in 0..ChainHeight : chainActive[h + 1].nVersion = nAlgo}

\* The rows of the last call that report on an algorithm: the algorithm,
\* the difficulty and, in getmultialgoinfo, last_block_index.
InfoAlgoRows ==
    IF infoCall.kind # "return" THEN {}
    ELSE IF infoCall.fn = "getmininginfo"
    THEN {[algo |-> infoCall.algo, difficulty |-> infoCall.difficulty,
           indexed |-> FALSE, last_block_index |-> -1]}
    ELSE IF infoCall.fn = "getmultialgoinfo"
    THEN {[algo |-> infoCall.arr[i].algo,
           difficulty |-> infoCall.arr[i].difficulty,
           indexed |-> TRUE,
           last_block_index |-> infoCall.arr[i].last_block_index] :
              i \in DOMAIN infoCall.arr}
    ELSE {}

CostFactorTable ==
    [a \in Algos |->
        CASE a = ALGO_SHA256D -> 1000
          [] a = ALGO_SCRYPT -> 300
          [] a = ALGO_NIST5 -> 100
          [] a = ALGO_LYRA2Z -> 50
          [] a = ALGO_X11 -> 125
          [] a = ALGO_X16R -> 150]

RECURSIVE SumOver(_, _)
SumOver(f, S) ==
    IF S = {} THEN 0
    ELSE LET x == CHOOSE y \in S : TRUE IN f[x] + SumOver(f, S \ {x})

\* What GetAlgoCostFactor returns for each of the six algorithms.
CostFactors ==
    [a \in Algos |-> GetAlgoCostFactor([top |-> VERSIONBITS_TOP_BITS, algo |-> a])]

\* C26: GetAlgoCostFactor returns, for each of the six algorithms, its table
\* factor divided by 18.25/6 (num / den = 6 * factor / 18.25), so the six
\* returned factors sum to 6 and their mean is 1.
C26_CostFactorsNormalized ==
    (algoResult.fn = "GetAlgoCostFactor" /\ algoVersion.algo \in Algos) =>
        /\ algoResult.value.num * TotalAdjustementsInit
               = 6 * CostFactorTable[algoVersion.algo] * algoResult.value.den
        /\ \E den \in {CostFactors[a].den : a \in Algos} :
               /\ \A a \in Algos : CostFactors[a].den = den
               /\ SumOver([a \in Algos |-> CostFactors[a].num], Algos) = 6 * den

\* GetAlgoCostFactor has divided the factor of SHA256D by 3.
C26_DividedByThree ==
    /\ algoResult.fn = "GetAlgoCostFactor"
    /\ algoVersion.algo = ALGO_SHA256D
    /\ algoResult.value = [num |-> 1000, den |-> 300]

\* The efficiency of each of the six algorithms.
EfficiencyTable ==
    [a \in Algos |->
        CASE a = ALGO_SHA256D -> 1
          [] a = ALGO_SCRYPT -> 12984
          [] a = ALGO_NIST5 -> 513
          [] a = ALGO_LYRA2Z -> 1973648
          [] a = ALGO_X11 -> 513
          [] a = ALGO_X16R -> 257849]

\* C27: GetAlgoEfficiency returns the table value of the algorithm field of
\* the version, at every block height and for every value of the other
\* version bits, and 1 for an algorithm field that is no algorithm.
C27_EfficiencyByAlgoField ==
    algoResult.fn = "GetAlgoEfficiency" =>
        algoResult.value =
            IF algoVersion.algo \in Algos
            THEN EfficiencyTable[algoVersion.algo]
            ELSE 1

\* The efficiency of NIST5 read from a header whose top bits are not the
\* versionbits pattern, at a height above 0.
C27_Nist5WithoutTopBits ==
    /\ algoResult.fn = "GetAlgoEfficiency"
    /\ algoVersion.algo = ALGO_NIST5
    /\ algoVersion.top # VERSIONBITS_TOP_BITS
    /\ algoBlockHeight > 0
    /\ algoResult.value = 513


(***************************************************************************)
(* Properties of the halving schedule and of gethalvinginfo.               *)
(***************************************************************************)
\* The supply target of the epoch at position i of the schedule.
SupplyTargetAt(epochs, i) ==
    epochs[i].nMaxBlockSubsidy * (epochs[i].nEndBlock - epochs[i].nStartBlock + 1)

\* C28: at each epoch boundary, with R the supply released during the ended
\* epoch over its supply target: if R >= HALVING_MIN_SUPPLY_TARGET the new
\* epoch has half the maximum subsidy, is started by halving, the halving
\* counter grows by one and the halving interval doubles; otherwise the
\* new epoch keeps the maximum subsidy and the interval, is not started by
\* halving and the counter stays.
C28_HalvingAtBoundary ==
    [][Len(halvingParams'.epochs) > Len(halvingParams.epochs) =>
          LET n == Len(halvingParams.epochs)
              old == halvingParams.epochs[n]
              new == halvingParams'.epochs[n + 1]
              released == nMoneySupply - old.nStartSupply
              reached == released * HALVING_MIN_SUPPLY_TARGET.den
                             >= HALVING_MIN_SUPPLY_TARGET.num
                                    * SupplyTargetAt(halvingParams.epochs, n)
          IN  /\ Len(halvingParams'.epochs) = n + 1
              /\ reached =>
                     /\ new.nMaxBlockSubsidy = old.nMaxBlockSubsidy \div 2
                     /\ new.fIsSubsidyHalved
                     /\ halvingParams'.nHalvingCount = halvingParams.nHalvingCount + 1
                     /\ halvingParams'.nHalvingInterval
                            = 2 * halvingParams.nHalvingInterval
              /\ ~reached =>
                     /\ new.nMaxBlockSubsidy = old.nMaxBlockSubsidy
                     /\ ~new.fIsSubsidyHalved
                     /\ halvingParams'.nHalvingCount = halvingParams.nHalvingCount
                     /\ halvingParams'.nHalvingInterval
                            = halvingParams.nHalvingInterval]_vars

\* A schedule with an epoch started by halving and a later epoch that
\* repeats it.
C28_HalvedThenRepeated ==
    \E i, j \in 1..Len(halvingParams.epochs) :
        /\ i < j
        /\ halvingParams.epochs[i].fIsSubsidyHalved
        /\ ~halvingParams.epochs[j].fIsSubsidyHalved


\* The entries of the answer that are started by halving.
ReportedHalved(info) ==
    {i \in 1..Len(info.epochs) : info.epochs[i].started_by_halving}

\* C29: across accepted blocks the halving counter never decreases, the
\* halving interval never decreases and is always the initial interval
\* times 2 to the power of the counter, and the number of epochs reported
\* with started_by_halving = true is the counter reported as
\* halvings_occured.
C29_CounterAndInterval ==
    /\ [][/\ halvingParams'.nHalvingCount >= halvingParams.nHalvingCount
          /\ halvingParams'.nHalvingInterval >= halvingParams.nHalvingInterval]_vars
    /\ [](halvingParams.nHalvingInterval
              = InitialHalvingInterval * 2 ^ halvingParams.nHalvingCount)
    /\ [](halvingInfo.kind = "return" =>
              /\ halvingInfo.halvings_occured = Cardinality(ReportedHalved(halvingInfo))
              /\ halvingInfo.halving_interval
                     = InitialHalvingInterval * 2 ^ halvingInfo.halvings_occured)

\* gethalvinginfo answers after two halvings and a repeated epoch.
C29_TwoHalvingsReported ==
    /\ halvingInfo.kind = "return"
    /\ halvingInfo.halvings_occured = 2
    /\ halvingInfo.epochs_occured > 5


\* The numbered epochs up to position i that were started by halving, and
\* the position of the last of them (of ALPHA when there is none).
NumberedHalvedUpTo(i) ==
    {j \in 4..i : halvingParams.epochs[j].fIsSubsidyHalved}
LastHalvingUpTo(i) == SetMax(NumberedHalvedUpTo(i) \cup {3})

AmountOf(v) == v.coins * COIN + v.satoshis

\* The supply of the entries from..to of the answer.
RECURSIVE ReportedSupply(_, _, _)
ReportedSupply(info, from, to) ==
    IF from > to THEN 0
    ELSE AmountOf(info.epochs[from].supply_this_epoch)
             + ReportedSupply(info, from + 1, to)

\* C31: supply_since_halving is reset at every epoch started by halving and
\* at the transition from the named epochs to the first numbered epoch: an
\* epoch started by halving reports its own supply_this_epoch, and a
\* numbered epoch reports the supply of the numbered epochs since the last
\* halving, so the first numbered epoch reports nothing released during
\* COINSWAP, BOOTSTRAP or ALPHA.
C31_SupplySinceHalvingReset ==
    halvingInfo.kind = "return" =>
        \A i \in 4..Len(halvingInfo.epochs) :
            /\ halvingInfo.epochs[i].started_by_halving =>
                   halvingInfo.epochs[i].supply_since_halving
                       = halvingInfo.epochs[i].supply_this_epoch
            /\ AmountOf(halvingInfo.epochs[i].supply_since_halving)
                   = ReportedSupply(halvingInfo,
                                    SetMax(NumberedHalvedUpTo(i) \cup {4}), i)

\* An answer whose first numbered epoch repeats ALPHA, after ALPHA released
\* coins.
C31_AlphaRepeatedAfterSupply ==
    /\ halvingInfo.kind = "return"
    /\ Len(halvingInfo.epochs) >= 4
    /\ ~halvingInfo.epochs[4].started_by_halving
    /\ AmountOf(halvingInfo.epochs[3].supply_this_epoch) > 0
    /\ AmountOf(halvingInfo.epochs[4].supply_since_halving)
           = AmountOf(halvingInfo.epochs[3].supply_this_epoch)
                 + AmountOf(halvingInfo.epochs[4].supply_this_epoch)


(***************************************************************************)
(* Properties of the lock around the reads of the chain.                   *)
(***************************************************************************)
\* C32: every operation that reads the tip or walks the block index makes
\* those reads while holding cs_main, so that no change of the tip is seen
\* between two reads of one call; submitblock makes its lookups under one
\* LOCK(cs_main) each.
C32_ReadsUnderCsMain ==
    /\ \A i \in 1..Len(rpcCall.reads) : rpcCall.reads[i].held
    /\ rpcCall.rpc \notin {"none", "submitblock", "submitheader"} =>
           \A i, j \in 1..Len(rpcCall.reads) :
               rpcCall.reads[i].seen = rpcCall.reads[j].seen

\* gethalvinginfo has read two different heights in one call.
C32_HalvingInfoSeesTipChange ==
    /\ rpcCall.rpc = "gethalvinginfo"
    /\ rpcCall.pc = "done"
    /\ rpcCall.reads[1].seen = 0
    /\ rpcCall.reads[2].seen = 1
    /\ ~rpcCall.reads[1].held


(***************************************************************************)
(* Properties of the algorithm name of a call.                             *)
(***************************************************************************)
\* C33: a call of getnetworkhashps or getmininginfo whose algorithm name
\* maps to ALGO_NULL ends with an input error and computes no hash rate and
\* no difficulty for it. (getblocktemplate: GbtEnter and ReqChecks.)
C33_UnknownAlgorithmIsInputError ==
    (infoCall # NoInfoCall
         /\ infoCall.fn \in {"getnetworkhashps", "getmininginfo"}
         /\ infoCall.nAlgo = ALGO_NULL) =>
        /\ infoCall.kind = "throw"
        /\ infoCall.code = "RPC_INVALID_PARAMETER"

\* getnetworkhashps has returned a rate for ALGO_NULL over a window with two
\* different block times.
C33_HashRateForUnknownAlgorithm ==
    /\ infoCall # NoInfoCall
    /\ infoCall.fn = "getnetworkhashps"
    /\ infoCall.nAlgo = ALGO_NULL
    /\ infoCall.kind = "return"
    /\ infoCall.hps.minTime # infoCall.hps.maxTime
    /\ infoCall.hps.value = [num |-> 0, den |-> infoCall.hps.maxTime - infoCall.hps.minTime]


C35_SubmitBlockResult ==
    /\ [][\A c \in SubCallers :
              SubReturns(c) =>
                  IF ~subNewBlock[c] /\ subAccepted[c]
                    THEN subResult'[c] = SubValue("duplicate")
                    ELSE IF ~sc[c].found
                           THEN subResult'[c] = SubValue("inconclusive")
                           ELSE /\ sc[c].state.mode = "valid"
                                    => subResult'[c] = SubValue("null")
                                /\ sc[c].state.mode = "invalid"
                                    => subResult'[c] =
                                           SubValue(IF sc[c].state.reason = ""
                                                    THEN "rejected"
                                                    ELSE sc[c].state.reason)]_vars
    /\ [][\A c \in SubCallers :
              (/\ subPc[c] = "idle"
               /\ subCall'[c] = "submitblock"
               /\ subHash'[c] \in SubBlocks
               /\ blockIndex[subHash'[c]] \in {"valid", "failed"}) =>
                  /\ subPc'[c] = "done"
                  /\ subResult'[c] = SubValue(IF blockIndex[subHash'[c]] = "valid"
                                              THEN "duplicate"
                                              ELSE "duplicate-invalid")
                  /\ UNCHANGED <<blockIndex, validationInterfaces>>]_vars
    /\ [](\A c \in SubCallers :
              subPc[c] \in {"catch", "registered", "processed"} =>
                  subHash[c] \in SubBlocks)

\* One call has returned "rejected" for a block and a later call
\* "duplicate-invalid" for the same block.
C35_RejectedThenDuplicateInvalid ==
    \E c, d \in SubCallers :
        /\ subCall[c] = "submitblock" /\ subPc[c] = "done"
        /\ subCall[d] = "submitblock" /\ subPc[d] = "done"
        /\ subHash[c] = subHash[d]
        /\ subResult[c] = SubValue("rejected")
        /\ subResult[d] = SubValue("duplicate-invalid")


\* C40: while the catcher of a submitblock call is registered, the result of
\* validating a block of another hash changes neither its found flag nor its
\* state: what the catcher holds changes only when ProcessNewBlock signals a
\* state for the hash the call submitted, and the value the call returns is
\* computed from that.
C40_CatcherKeepsOwnHash ==
    [][~subCrashed' =>
          \A d \in validationInterfaces :
              (subPc[d] \in {"registered", "processed"} /\ subPc'[d] # "done") =>
                  /\ (\A c \in SubCallers :
                          (/\ subPc[c] = "registered"
                           /\ subPc'[c] = "processed"
                           /\ subHash[c] # subHash[d]) => sc'[d] = sc[d])
                  /\ sc'[d] # sc[d] =>
                         /\ sc'[d].found
                         /\ \E c \in SubCallers :
                                /\ subPc[c] = "registered"
                                /\ subPc'[c] = "processed"
                                /\ subHash[c] = subHash[d]]_vars

\* The catchers of two calls for different blocks are registered and hold
\* different states: the later ProcessNewBlock signalled its state while the
\* catcher of the other call was registered.
C40_TwoCatchersTwoStates ==
    \E c, d \in SubCallers :
        /\ {c, d} \subseteq validationInterfaces
        /\ subPc[c] = "processed" /\ subPc[d] = "processed"
        /\ subHash[c] # subHash[d]
        /\ sc[c].found /\ sc[d].found
        /\ sc[c].state # sc[d].state


C37_Terminates ==
    /\ [](genPc = "loop" =>
              /\ genBudget - nMaxTries >= nInnerLoopCount * (genTemplates - nHeight)
              /\ nHeight <= nHeightEnd
              /\ nMaxTries > 0 \/ genTemplates = 0)
    /\ [](genPc # "idle" =>
              genTemplates <= nHeightEnd + (genBudget \div nInnerLoopCount) + 1)
    /\ (genPc \in {"loop", "scan", "scanned"} ~> genPc = "done")

\* A call has ended after two templates whose nonce ranges were used up and
\* a third one during which the budget ran out.
C37_BudgetEndsCall ==
    /\ genPc = "done"
    /\ genResult = GenHashes(0)
    /\ genTemplates = 3
    /\ genFailed = genBudget
    /\ genBudget > 2 * nInnerLoopCount
    /\ nHeightEnd > 0


(***************************************************************************)
(* Properties of getblocktemplate across requests.                         *)
(***************************************************************************)
\* C38 (as stated): with the template and the deployment states fixed, the
\* version getblocktemplate returns depends on the client rules of the
\* request alone: the bit of a STARTED deployment that the client supports is
\* set in the version it is given, also when the bit was cleared for an
\* earlier client that did not support the deployment.
C38_VersionFromClientRules ==
    (reqPc = "done" /\ reqResult.kind = "template") =>
        \A pos \in DeploymentPos :
            (/\ versionBitsState[pos] = "STARTED"
             /\ VBDeployments[pos] \in setClientRules) =>
                pos \in reqResult.version

\* A client that supports a STARTED deployment that is not forced is given
\* the cached template, not rebuilt in its call, without the deployment's bit.
C38_BitStaysCleared ==
    /\ reqPc = "done"
    /\ reqResult.kind = "template"
    /\ ~reqUpdated
    /\ templateOnTip
    /\ \E pos \in DeploymentPos :
           /\ versionBitsState[pos] = "STARTED"
           /\ ~gbt_force[pos]
           /\ VBDeployments[pos] \in setClientRules
           /\ pos \notin reqResult.version
           /\ pos \in ComputeBlockVersion(versionBitsState)

\* The error codes of the tests of the node's state.
ReqNodeStateCodes ==
    {"RPC_CLIENT_P2P_DISABLED", "RPC_CLIENT_NOT_CONNECTED",
     "RPC_CLIENT_IN_INITIAL_DOWNLOAD"}

\* C39: a getblocktemplate call in proposal mode is answered in the step that
\* reads the request: it leaves the template cache as it is, does not long
\* poll, and is not refused for a missing connection manager, a node without
\* peers or initial block download, whose tests come after the proposal
\* branch.
C39_ProposalLeavesCache ==
    /\ [][(reqPc = "idle" /\ reqPc' # "idle" /\ strMode' = "proposal") =>
              /\ reqPc' = "done"
              /\ \E st \in IndexStatus, prevIsTip \in BOOLEAN,
                    state \in TestBlockValidityStates :
                     reqResult' = ProposalResult(reqParams'.data, st, prevIsTip, state)
              /\ UNCHANGED <<templateOnTip, nVersionBits, versionBitsState>>
              /\ UNCHANGED gbtVars]_vars
    /\ [](strMode = "proposal" =>
              /\ reqPc = "done"
              /\ ~reqLongPolled
              /\ ~reqUpdated
              /\ reqResult.kind \in {"value", "error"}
              /\ reqResult.code \notin ReqNodeStateCodes)

\* A proposal with a long poll id has been answered with the verdict of
\* TestBlockValidity while a template is cached.
C39_ProposalAnsweredWithCache ==
    /\ reqPc = "done"
    /\ strMode = "proposal"
    /\ lpval
    /\ templateOnTip
    /\ reqProposal.state # NoSignal
    /\ reqResult.kind = "value"

=============================================================================
